---- MODULE Spec2Model ----
(***************************************************************************)
(* The consensus processor of the CoSi-PBFT ordering service:              *)
(* processor.Invoke, processor.Process, processor.storeGenesis and         *)
(* processor.getCurrentRoster of core/ordering/cosipbft/proc.go, run by    *)
(* concurrent handler goroutines of the messaging fabric against the       *)
(* genesis store, the tree cache, the block store, the synchronizer and    *)
(* the PBFT state machine. Next to it, with specifications of their own,   *)
(* the roster of ledger/byzcoin/roster.go and its iterators, the JSON      *)
(* request codec (requestFormat, blockFormat) and the JSON serializer of   *)
(* serde/json, each driven by callers on the same goroutines.              *)
(***************************************************************************)
EXTENDS Integers, Sequences, FiniteSets, TLC

\* ------------------------------------------------------------------ bounds

\* Messages the fabric delivers in one run.
MaxCalls == 3
\* Messages the fabric delivers in a run that goes through a view change.
MaxRound == 6
\* Links the block store may hold.
MaxBlocks == 6
\* Highest index the synchronizer may announce.
MaxLatest == 5
\* Block messages delivered to a lagging replica in one run.
MaxWaits == 2
\* Length up to which the synchronizer stores links next to a consensus round.
MaxSynced == 2

\* Handler goroutines the fabric runs side by side.
Workers == {"t1", "t2"}
\* The goroutine that takes the messages handled in one step.
Quick == "t0"
Threads == Workers \cup {Quick}
\* The goroutine of the leader that builds the commit requests.
Leader == "t2"

\* ------------------------------------------------------------------- data

\* The absent value (a nil pointer, an empty slot).
Nil == <<>>
\* The nil error.
NoErr == ""

\* The reserved all-zero key of the state tree, and an ordinary key.
keyRoster == "key0"
keyX == "x"
Keys == {keyRoster, keyX}

\* Rosters are ordered sequences of participants.
RosterA == <<"a1", "a2", "a3", "a4">>
RosterB == <<"a2", "a1">>
\* A roster whose Serialize fails.
RosterBad == <<"a9">>
Rosters == {RosterA, RosterB, RosterBad}
Addrs == {"a1", "a2", "a3"}

\* roster.Serialize(ctx) and rosterFac.AuthorityOf(ctx, data).
Serialize(r) == IF r = RosterBad THEN Nil ELSE <<"json", r>>
AuthorityOf(data) == IF Len(data) = 2 /\ data[1] = "json" THEN data[2] ELSE Nil

\* The tree of a fresh tree cache.
EmptyTree == [k \in Keys |-> Nil]
\* tree.GetRoot(): a content hash, compared by value.
Root(tr) == <<"root", tr>>
ZeroDigest == <<"zero">>
\* A root no tree has.
WrongRoot == <<"root", EmptyTree, "wrong">>

\* Block payloads and what executing them does to a snapshot.
\* "incx" increments key x, "rot" writes another roster at the reserved key.
Payloads == {"nop", "incx", "rot"}
Execute(tr, payload) ==
    IF payload = "incx"
    THEN [tr EXCEPT ![keyX] = IF tr[keyX] = Nil THEN <<1>> ELSE <<tr[keyX][1] + 1>>]
    ELSE IF payload = "rot"
    THEN [tr EXCEPT ![keyRoster] = IF tr[keyRoster] = Serialize(RosterB)
                                   THEN Serialize(RosterA) ELSE Serialize(RosterB)]
    ELSE tr

\* Block.Digest: hash over (Index, BackLink, TreeRoot, PayloadFingerprint).
Digest(b) == <<"block", b.index, b.back, b.root, b.payload>>

\* crypto.Signature: what it signs, whether it verifies, whether it marshals.
MarshalBinary(sig) == IF sig.enc THEN <<"bin", sig.over, sig.valid>> ELSE Nil
Verify(sig, m) == sig.valid /\ sig.over = m

\* A newCommitRequest that takes the block digest for the hash to sign.
newCommitRequestHashesId(to, prepare) ==
    LET buffer == MarshalBinary(prepare)
    IN  IF buffer = Nil
        THEN [commit |-> Nil, err |-> "couldn't marshal prepare signature"]
        ELSE [commit |-> [to |-> to, prepare |-> prepare, hash |-> to], err |-> NoErr]

\* newCommitRequest(to, prepare): the Commit request and the error; Nil
\* stands for the empty Commit{} returned with an error.
newCommitRequest(to, prepare) ==
    LET buffer == MarshalBinary(prepare)
    IN  IF buffer = Nil
        THEN [commit |-> Nil, err |-> "couldn't marshal prepare signature"]
        ELSE [commit |-> [to |-> to, prepare |-> prepare, hash |-> buffer], err |-> NoErr]

\* Commit.GetHash().
GetHash(c) == c.hash

\* (reply, error) pairs returned by Invoke and Process.
Ok(reply) == [reply |-> reply, err |-> NoErr]
Err(e) == [reply |-> Nil, err |-> e]

VARIABLES
    genesis,    \* the genesis slot: Nil or [roster, root]
    tree,       \* the tree the tree cache returns from Get()
    events,     \* the indices notified to the ordering watcher, in order
    closes,     \* how many times close(started) was executed
    blocks,     \* the block store, a sequence of blocks
    latest,     \* sync.GetLatest()
    pbft,       \* the PBFT state machine
    pc,         \* per handler: where it stands
    msg,        \* per handler: the message being handled
    loc,        \* per handler: locals (staged tree, PBFT operations invoked)
    watch,      \* per handler: its blocks.Watch subscription
    ret,        \* per handler: what the entry point returned
    ncalls      \* messages delivered so far

vars == <<genesis, tree, events, closes, blocks, latest, pbft, pc, msg, loc, watch, ret, ncalls>>

NoWatch == [sub |-> FALSE, ch |-> <<>>, cancelled |-> FALSE, closed |-> FALSE]
\* need, len0: GetLatest() and Len() as line 70 read them; maxidx: the highest
\* index the watch channel handed to the loop; view: the argument of Accept.
\* err: the error of the PBFT operation; outer: the caller gave the call up;
\* dirty: the call's tree.Set changed what Get() returns.
NoLoc == [stage |-> Nil, ops |-> {}, err |-> NoErr, waited |-> FALSE, need |-> 0,
          len0 |-> 0, maxidx |-> -1, outer |-> FALSE, view |-> Nil, dirty |-> FALSE]
NoPbft == [phase |-> "NONE", id |-> Nil, block |-> Nil, staged |-> Nil,
           psig |-> Nil, views |-> {}, leader |-> 0]

Init ==
    /\ genesis = Nil
    /\ tree = EmptyTree
    /\ events = <<>>
    /\ closes = 0
    /\ blocks = <<>>
    /\ latest = 0
    /\ pbft = NoPbft
    /\ pc = [t \in Threads |-> "idle"]
    /\ msg = [t \in Threads |-> Nil]
    /\ loc = [t \in Threads |-> NoLoc]
    /\ watch = [t \in Threads |-> NoWatch]
    /\ ret = [t \in Threads |-> Nil]
    /\ ncalls = 0

\* A handler accepts a new message.
CanStart(t) == pc[t] = "idle" /\ ncalls < MaxRound

\* The handler returns r.
Finish(t, r) ==
    /\ pc' = [pc EXCEPT ![t] = "done"]
    /\ ret' = [ret EXCEPT ![t] = r]

\* ------------------------------------------------------------ block store

LastDigest == IF blocks = <<>> THEN ZeroDigest ELSE Digest(blocks[Len(blocks)])

\* Store(link): the link is appended and delivered to every live watcher.
Delivered(w, b) ==
    [t \in Threads |->
        IF w[t].sub /\ ~w[t].closed
        THEN [w[t] EXCEPT !.ch = Append(@, b.index)]
        ELSE w[t]]

\* ------------------------------------------------- Process: GenesisMessage

\* The root of the tree a fresh node stages for roster r.
GenesisRoot(r) == Root([EmptyTree EXCEPT ![keyRoster] = Serialize(r)])

\* The genesis messages a peer may send: well-formed ones, one whose root is
\* not the root of its roster, one whose roster does not serialize.
GenesisMessages ==
    {[entry |-> "Process", type |-> "Genesis", roster |-> g[1], root |-> g[2]] :
        g \in {<<RosterA, GenesisRoot(RosterA)>>, <<RosterB, GenesisRoot(RosterB)>>,
               <<RosterA, WrongRoot>>, <<RosterBad, GenesisRoot(RosterA)>>}}

\* A Process that lacks the Exists() check: every delivery runs storeGenesis.
ProcessGenesisUnguarded(t) ==
    /\ CanStart(t)
    /\ \E m \in GenesisMessages : msg' = [msg EXCEPT ![t] = m]
    /\ pc' = [pc EXCEPT ![t] = "sgStage"]
    /\ ncalls' = ncalls + 1
    /\ UNCHANGED <<genesis, tree, events, closes, blocks, latest, pbft, loc, watch, ret>>

\* Process, case types.GenesisMessage: the Exists() check, then storeGenesis.
ProcessGenesis(t) ==
    /\ CanStart(t)
    /\ \E m \in GenesisMessages :
        /\ msg' = [msg EXCEPT ![t] = m]
        /\ IF genesis # Nil
           THEN Finish(t, Ok(Nil))
           ELSE /\ pc' = [pc EXCEPT ![t] = "sgStage"]
                /\ UNCHANGED ret
    /\ ncalls' = ncalls + 1
    /\ UNCHANGED <<genesis, tree, events, closes, blocks, latest, pbft, loc, watch>>

\* storeGenesis up to the genesis construction: serialize the roster, stage it
\* on the current tree, compare the staged root with the expected one. The
\* tree's Stage and types.NewGenesis may fail on their own.
StoreGenesisStage(t) ==
    /\ pc[t] = "sgStage"
    /\ LET value == Serialize(msg[t].roster)
           staged == [tree EXCEPT ![keyRoster] = value]
       IN  \/ /\ value = Nil
              /\ Finish(t, Err("failed to serialize roster"))
              /\ UNCHANGED loc
           \/ /\ value # Nil
              /\ Finish(t, Err("tree stage failed"))
              /\ UNCHANGED loc
           \/ /\ value # Nil
              /\ msg[t].root # Root(staged)
              /\ Finish(t, Err("mismatch tree root"))
              /\ UNCHANGED loc
           \/ /\ value # Nil
              /\ msg[t].root = Root(staged)
              /\ Finish(t, Err("creating genesis"))
              /\ UNCHANGED loc
           \/ /\ value # Nil
              /\ msg[t].root = Root(staged)
              /\ loc' = [loc EXCEPT ![t].stage = staged]
              /\ pc' = [pc EXCEPT ![t] = "sgCommit"]
              /\ UNCHANGED ret
    /\ UNCHANGED <<genesis, tree, events, closes, blocks, latest, pbft, msg, watch, ncalls>>

\* A storeGenesis that hands the staged tree to the cache whatever Commit
\* returned.
StoreGenesisSetsUncommitted(t) ==
    /\ pc[t] = "sgCommit"
    /\ tree' = loc[t].stage
    /\ loc' = [loc EXCEPT ![t].dirty = (loc[t].stage # tree)]
    /\ \/ Finish(t, Err("tree commit failed"))
       \/ /\ pc' = [pc EXCEPT ![t] = "sgSet"]
          /\ UNCHANGED ret
    /\ UNCHANGED <<genesis, events, closes, blocks, latest, pbft, msg, watch, ncalls>>

\* stageTree.Commit() and, when it succeeds, h.tree.Set(stageTree).
StoreGenesisCommit(t) ==
    /\ pc[t] = "sgCommit"
    /\ \/ /\ Finish(t, Err("tree commit failed"))
          /\ UNCHANGED tree
          /\ UNCHANGED loc
       \/ /\ tree' = loc[t].stage
          /\ loc' = [loc EXCEPT ![t].dirty = (loc[t].stage # tree)]
          /\ pc' = [pc EXCEPT ![t] = "sgSet"]
          /\ UNCHANGED ret
    /\ UNCHANGED <<genesis, events, closes, blocks, latest, pbft, msg, watch, ncalls>>

\* GenesisStore.Set: fails when a genesis is already present.
GenesisSet(g) == IF genesis # Nil THEN "genesis is already set" ELSE NoErr

\* A storeGenesis that drops the error of GenesisStore.Set and goes on.
StoreGenesisSetUnchecked(t) ==
    /\ pc[t] = "sgSet"
    /\ genesis' = IF genesis # Nil THEN genesis
                  ELSE [roster |-> msg[t].roster, root |-> Root(loc[t].stage)]
    /\ pc' = [pc EXCEPT ![t] = "sgNotify"]
    /\ UNCHANGED <<tree, events, closes, blocks, latest, pbft, msg, loc, watch, ret, ncalls>>

\* h.genesis.Set(genesis) and the error return that follows it.
StoreGenesisSet(t) ==
    /\ pc[t] = "sgSet"
    /\ LET g == [roster |-> msg[t].roster, root |-> Root(loc[t].stage)]
           err == GenesisSet(g)
       IN  IF err # NoErr
           THEN /\ Finish(t, Err("set genesis failed"))
                /\ UNCHANGED genesis
           ELSE /\ genesis' = g
                /\ pc' = [pc EXCEPT ![t] = "sgNotify"]
                /\ UNCHANGED ret
    /\ UNCHANGED <<tree, events, closes, blocks, latest, pbft, msg, loc, watch, ncalls>>

\* h.watcher.Notify(ordering.Event{Index: 0}).
StoreGenesisNotify(t) ==
    /\ pc[t] = "sgNotify"
    /\ events' = Append(events, 0)
    /\ pc' = [pc EXCEPT ![t] = "sgClose"]
    /\ UNCHANGED <<genesis, tree, closes, blocks, latest, pbft, msg, loc, watch, ret, ncalls>>

\* close(h.started) and the nil return; closing a closed channel panics.
StoreGenesisClose(t) ==
    /\ pc[t] = "sgClose"
    /\ closes' = closes + 1
    /\ Finish(t, IF closes = 0 THEN Ok(Nil) ELSE Err("panic: close of closed channel"))
    /\ UNCHANGED <<genesis, tree, events, blocks, latest, pbft, msg, loc, watch, ncalls>>

\* ------------------------------------------------------ PBFT state machine

\* readRoster(tree): the value at the reserved key, decoded; Nil stands for
\* the error of the read or of the decoding.
readRoster(tr) ==
    LET data == tr[keyRoster]
    IN  AuthorityOf(data)

\* A getCurrentRoster that reads the tree staged by Prepare when there is one.
getCurrentRosterStaged == readRoster(IF pbft.staged # Nil THEN pbft.staged ELSE tree)

\* getCurrentRoster(): readRoster of the tree the tree cache returns.
getCurrentRoster == readRoster(tree)

\* The roster the state machine counts and verifies with.
CurrentRoster == getCurrentRoster

\* 2f+1 with f = floor((n-1)/3).
Quorum(n) == IF n = 0 THEN 1 ELSE 2 * ((n - 1) \div 3) + 1

Idle(sm) == [sm EXCEPT !.phase = "NONE", !.id = Nil, !.block = Nil,
                        !.staged = Nil, !.psig = Nil]

\* pbft.Prepare(block): the error, the digest and the next state.
PbftPrepare(b) ==
    IF pbft.phase # "NONE"
    THEN IF pbft.id = Digest(b)
         THEN [err |-> NoErr, digest |-> pbft.id, sm |-> pbft]
         ELSE [err |-> "BUSY", digest |-> Nil, sm |-> pbft]
    ELSE IF b.index # Len(blocks) \/ b.back # LastDigest
    THEN [err |-> "BAD_LINK", digest |-> Nil, sm |-> pbft]
    ELSE IF b.root # Root(Execute(tree, b.payload))
    THEN [err |-> "ROOT_MISMATCH", digest |-> Nil, sm |-> pbft]
    ELSE [err |-> NoErr, digest |-> Digest(b),
          sm |-> [pbft EXCEPT !.phase = "PREPARE", !.id = Digest(b), !.block = b,
                              !.staged = Execute(tree, b.payload)]]

\* pbft.Commit(id, prepareSig).
PbftCommit(id, sig) ==
    IF ~(pbft.phase = "PREPARE" /\ pbft.id = id)
    THEN [err |-> "UNEXPECTED", sm |-> pbft]
    ELSE IF ~Verify(sig, id)
    THEN [err |-> "SIG_INVALID", sm |-> pbft]
    ELSE [err |-> NoErr, sm |-> [pbft EXCEPT !.phase = "COMMIT", !.psig = sig]]

\* pbft.Finalize(id, commitSig): the error, and whether the block is appended.
PbftFinalize(id, sig) ==
    IF ~(pbft.phase = "COMMIT" /\ pbft.id = id)
    THEN [err |-> "UNEXPECTED", sm |-> Idle(pbft), store |-> FALSE]
    ELSE IF ~Verify(sig, MarshalBinary(pbft.psig))
    THEN [err |-> "SIG_INVALID", sm |-> Idle(pbft), store |-> FALSE]
    ELSE IF pbft.block.index # Len(blocks) \/ pbft.block.back # LastDigest
    THEN [err |-> "BAD_LINK", sm |-> Idle(pbft), store |-> FALSE]
    ELSE [err |-> NoErr, sm |-> Idle(pbft), store |-> TRUE]

\* pbft.Accept(view): the next state.
PbftAccept(v) ==
    LET vs == pbft.views \cup {v}
        matching == {w \in vs : w.id = v.id /\ w.leader = v.leader}
    IN  IF Cardinality(matching) >= Quorum(Len(CurrentRoster))
        THEN [Idle(pbft) EXCEPT !.views = {}, !.leader = v.leader]
        ELSE [pbft EXCEPT !.views = vs]

\* --------------------------------------------------- Invoke: BlockMessage

\* The blocks a leader may propose: the next block of the chain with the root
\* it computes, one whose declared root is all zero, one that skips an index.
Proposals ==
    {[index |-> Len(blocks), back |-> LastDigest, root |-> Root(Execute(tree, pl)),
      payload |-> pl] : pl \in Payloads \ {"nop"}}
    \cup {[index |-> Len(blocks), back |-> LastDigest, root |-> ZeroDigest,
           payload |-> "incx"],
          [index |-> Len(blocks) + 1, back |-> LastDigest, root |-> Root(tree),
           payload |-> "nop"]}

\* An Invoke that goes to the comparison without having subscribed.
InvokeBlockUnwatched(t) ==
    /\ CanStart(t)
    /\ \E b \in Proposals : msg' = [msg EXCEPT ![t] = [entry |-> "Invoke", type |-> "Block", block |-> b]]
    /\ pc' = [pc EXCEPT ![t] = "bCheck"]
    /\ ncalls' = ncalls + 1
    /\ UNCHANGED <<genesis, tree, events, closes, blocks, latest, pbft, loc, watch, ret>>

\* Invoke, case types.BlockMessage: the context and the subscription to
\* blocks.Watch(ctx).
InvokeBlock(t) ==
    /\ CanStart(t)
    /\ \E b \in Proposals : msg' = [msg EXCEPT ![t] = [entry |-> "Invoke", type |-> "Block", block |-> b]]
    /\ watch' = [watch EXCEPT ![t] = [NoWatch EXCEPT !.sub = TRUE]]
    /\ pc' = [pc EXCEPT ![t] = "bCheck"]
    /\ ncalls' = ncalls + 1
    /\ UNCHANGED <<genesis, tree, events, closes, blocks, latest, pbft, loc, ret>>

\* if h.sync.GetLatest() > h.blocks.Len()
BlockCheck(t) ==
    /\ pc[t] = "bCheck"
    /\ loc' = [loc EXCEPT ![t].need = latest, ![t].len0 = Len(blocks),
                          ![t].waited = latest > Len(blocks)]
    /\ pc' = [pc EXCEPT ![t] = IF latest > Len(blocks) THEN "bWait" ELSE "bPrepare"]
    /\ UNCHANGED <<genesis, tree, events, closes, blocks, latest, pbft, msg, watch, ret, ncalls>>

\* A loop that stops at the first link, whatever its index.
BlockRecvAnyLink(t) ==
    /\ pc[t] = "bWait"
    /\ watch[t].ch # <<>>
    /\ LET idx == Head(watch[t].ch)
       IN  /\ watch' = [watch EXCEPT ![t].ch = Tail(@), ![t].cancelled = TRUE]
           /\ loc' = [loc EXCEPT ![t].maxidx = IF idx > loc[t].maxidx THEN idx ELSE loc[t].maxidx]
    /\ UNCHANGED <<genesis, tree, events, closes, blocks, latest, pbft, pc, msg, ret, ncalls>>

\* A loop that takes GetLatest() for a length: it stops once the link below
\* GetLatest() has arrived.
BlockRecvOffByOne(t) ==
    /\ pc[t] = "bWait"
    /\ watch[t].ch # <<>>
    /\ LET idx == Head(watch[t].ch)
       IN  /\ watch' = [watch EXCEPT ![t].ch = Tail(@),
                                     ![t].cancelled = (@ \/ (idx + 1 >= latest))]
           /\ loc' = [loc EXCEPT ![t].maxidx = IF idx > loc[t].maxidx THEN idx ELSE loc[t].maxidx]
    /\ UNCHANGED <<genesis, tree, events, closes, blocks, latest, pbft, pc, msg, ret, ncalls>>

\* One turn of `for link := range blocks`: the link's index is compared with
\* GetLatest() and the context is cancelled when it has caught up.
BlockRecv(t) ==
    /\ pc[t] = "bWait"
    /\ watch[t].ch # <<>>
    /\ LET idx == Head(watch[t].ch)
       IN  /\ watch' = [watch EXCEPT ![t].ch = Tail(@),
                                     ![t].cancelled = (@ \/ (idx >= latest))]
           /\ loc' = [loc EXCEPT ![t].maxidx = IF idx > loc[t].maxidx THEN idx ELSE loc[t].maxidx]
    /\ UNCHANGED <<genesis, tree, events, closes, blocks, latest, pbft, pc, msg, ret, ncalls>>

\* The range loop ends when the channel is closed and drained.
BlockLoopEnd(t) ==
    /\ pc[t] = "bWait"
    /\ watch[t].ch = <<>>
    /\ watch[t].closed
    /\ pc' = [pc EXCEPT ![t] = "bPrepare"]
    /\ UNCHANGED <<genesis, tree, events, closes, blocks, latest, pbft, msg, loc, watch, ret, ncalls>>

\* The block store's watcher: once the context is done it removes the
\* observer and closes its channel.
WatchClose(t) ==
    /\ watch[t].sub
    /\ watch[t].cancelled
    /\ watch' = [watch EXCEPT ![t].sub = FALSE, ![t].closed = TRUE]
    /\ UNCHANGED <<genesis, tree, events, closes, blocks, latest, pbft, pc, msg, loc, ret, ncalls>>

\* An Invoke that drops the error of Prepare and replies with the digest of
\* the block it was sent.
BlockPrepareIgnoresError(t) ==
    /\ pc[t] = "bPrepare"
    /\ LET r == PbftPrepare(msg[t].block)
       IN  /\ pbft' = r.sm
           /\ Finish(t, Ok(Digest(msg[t].block)))
           /\ loc' = [loc EXCEPT ![t].ops = @ \cup {"Prepare"}, ![t].err = r.err]
    /\ watch' = [watch EXCEPT ![t].cancelled = TRUE]
    /\ UNCHANGED <<genesis, tree, events, closes, blocks, latest, msg, ncalls>>

\* h.pbftsm.Prepare(in.GetBlock()), the reply, and the deferred cancel().
BlockPrepare(t) ==
    /\ pc[t] = "bPrepare"
    /\ LET r == PbftPrepare(msg[t].block)
       IN  /\ pbft' = r.sm
           /\ Finish(t, IF r.err # NoErr THEN Err("pbft prepare failed") ELSE Ok(r.digest))
           /\ loc' = [loc EXCEPT ![t].ops = @ \cup {"Prepare"}, ![t].err = r.err]
    /\ watch' = [watch EXCEPT ![t].cancelled = TRUE]
    /\ UNCHANGED <<genesis, tree, events, closes, blocks, latest, msg, ncalls>>

\* -------------------------------------------------- Invoke: CommitMessage

\* The ids a message may name: the one in flight, or another one.
Ids == {ZeroDigest} \cup (IF pbft.id = Nil THEN {} ELSE {pbft.id})

\* The signatures a message may carry over m.
Signatures(m) == [over : {m}, valid : BOOLEAN, enc : BOOLEAN]

\* An Invoke that replies with the marshalled signature whatever Commit said.
InvokeCommitAlwaysReplies(t) ==
    /\ CanStart(t)
    /\ \E id \in Ids : \E sig \in Signatures(id) :
        LET r == PbftCommit(id, sig)
            buffer == MarshalBinary(sig)
        IN  /\ msg' = [msg EXCEPT ![t] = [entry |-> "Invoke", type |-> "Commit",
                                          id |-> id, sig |-> sig]]
            /\ loc' = [loc EXCEPT ![t].ops = @ \cup {"Commit"}, ![t].err = r.err]
            /\ pbft' = r.sm
            /\ Finish(t, IF buffer = Nil THEN Err("couldn't marshal signature")
                         ELSE Ok(buffer))
    /\ ncalls' = ncalls + 1
    /\ UNCHANGED <<genesis, tree, events, closes, blocks, latest, watch>>

\* Invoke, case types.CommitMessage: pbft.Commit, then the signature is
\* marshalled for the reply.
InvokeCommit(t) ==
    /\ CanStart(t)
    /\ \E id \in Ids : \E sig \in Signatures(id) :
        LET r == PbftCommit(id, sig)
            buffer == MarshalBinary(sig)
        IN  /\ msg' = [msg EXCEPT ![t] = [entry |-> "Invoke", type |-> "Commit",
                                          id |-> id, sig |-> sig]]
            /\ loc' = [loc EXCEPT ![t].ops = @ \cup {"Commit"}, ![t].err = r.err]
            /\ pbft' = r.sm
            /\ Finish(t, IF r.err # NoErr THEN Err("pbft commit failed")
                         ELSE IF buffer = Nil THEN Err("couldn't marshal signature")
                         ELSE Ok(buffer))
    /\ ncalls' = ncalls + 1
    /\ UNCHANGED <<genesis, tree, events, closes, blocks, latest, watch>>

\* The leader builds the commit request from the prepare signature it
\* aggregated: a call of newCommitRequest.
BuildCommit(t) ==
    /\ CanStart(t)
    /\ \E to \in Ids : \E prepare \in Signatures(to) :
        LET r == newCommitRequest(to, prepare)
        IN  /\ msg' = [msg EXCEPT ![t] = [entry |-> "newCommitRequest", type |-> "Build",
                                          to |-> to, prepare |-> prepare]]
            /\ Finish(t, [reply |-> r.commit, err |-> r.err])
    /\ ncalls' = ncalls + 1
    /\ UNCHANGED <<genesis, tree, events, closes, blocks, latest, pbft, loc, watch>>

\* An Invoke whose default case lets the message pass.
InvokeUnsupportedLenient(t) ==
    /\ CanStart(t)
    /\ \E ty \in {"Genesis", "Done", "View", "Other"} :
        msg' = [msg EXCEPT ![t] = [entry |-> "Invoke", type |-> ty]]
    /\ Finish(t, Ok(Nil))
    /\ ncalls' = ncalls + 1
    /\ UNCHANGED <<genesis, tree, events, closes, blocks, latest, pbft, loc, watch>>

\* Invoke, default case: any other message.
InvokeUnsupported(t) ==
    /\ CanStart(t)
    /\ \E ty \in {"Genesis", "Done", "View", "Other"} :
        msg' = [msg EXCEPT ![t] = [entry |-> "Invoke", type |-> ty]]
    /\ Finish(t, Err("unsupported message"))
    /\ ncalls' = ncalls + 1
    /\ UNCHANGED <<genesis, tree, events, closes, blocks, latest, pbft, loc, watch>>

\* --------------------------------- Process: DoneMessage, ViewMessage, other

\* A Finalize that stores the link and notifies without advancing the tree
\* cache.
ProcessDoneTorn(t) ==
    /\ CanStart(t)
    /\ \E id \in Ids :
       \E sig \in Signatures(IF pbft.psig = Nil THEN Nil ELSE MarshalBinary(pbft.psig)) :
        LET r == PbftFinalize(id, sig)
        IN  /\ msg' = [msg EXCEPT ![t] = [entry |-> "Process", type |-> "Done",
                                          id |-> id, sig |-> sig]]
            /\ loc' = [loc EXCEPT ![t].ops = @ \cup {"Finalize"}, ![t].err = r.err]
            /\ pbft' = r.sm
            /\ IF r.store
               THEN /\ blocks' = Append(blocks, pbft.block)
                    /\ watch' = Delivered(watch, pbft.block)
                    /\ events' = Append(events, pbft.block.index)
               ELSE UNCHANGED <<blocks, watch, events>>
            /\ Finish(t, IF r.err # NoErr THEN Err("pbftsm finalized failed") ELSE Ok(Nil))
    /\ ncalls' = ncalls + 1
    /\ UNCHANGED <<genesis, tree, closes, latest>>

\* A Finalize that appends the block in flight without looking at the store:
\* the link is stored although the chain has moved on since Prepare.
ProcessDoneStale(t) ==
    /\ CanStart(t)
    /\ \E id \in Ids :
       \E sig \in Signatures(IF pbft.psig = Nil THEN Nil ELSE MarshalBinary(pbft.psig)) :
        LET r == PbftFinalize(id, sig)
            store == r.store \/ r.err = "BAD_LINK"
        IN  /\ msg' = [msg EXCEPT ![t] = [entry |-> "Process", type |-> "Done",
                                          id |-> id, sig |-> sig]]
            /\ loc' = [loc EXCEPT ![t].ops = @ \cup {"Finalize"},
                                  ![t].err = IF store THEN NoErr ELSE r.err]
            /\ pbft' = r.sm
            /\ IF store
               THEN /\ tree' = pbft.staged
                    /\ blocks' = Append(blocks, pbft.block)
                    /\ watch' = Delivered(watch, pbft.block)
                    /\ events' = Append(events, pbft.block.index)
               ELSE UNCHANGED <<tree, blocks, watch, events>>
            /\ Finish(t, IF ~store THEN Err("pbftsm finalized failed") ELSE Ok(Nil))
    /\ ncalls' = ncalls + 1
    /\ UNCHANGED <<genesis, closes, latest>>

\* A Process that finalizes whatever is in flight instead of the id the
\* message names.
ProcessDoneAnyId(t) ==
    /\ CanStart(t)
    /\ \E id \in Ids :
       \E sig \in Signatures(IF pbft.psig = Nil THEN Nil ELSE MarshalBinary(pbft.psig)) :
        LET r == PbftFinalize(IF pbft.id = Nil THEN id ELSE pbft.id, sig)
        IN  /\ msg' = [msg EXCEPT ![t] = [entry |-> "Process", type |-> "Done",
                                          id |-> id, sig |-> sig]]
            /\ loc' = [loc EXCEPT ![t].ops = @ \cup {"Finalize"}, ![t].err = r.err]
            /\ pbft' = r.sm
            /\ IF r.store
               THEN /\ tree' = pbft.staged
                    /\ blocks' = Append(blocks, pbft.block)
                    /\ watch' = Delivered(watch, pbft.block)
                    /\ events' = Append(events, pbft.block.index)
               ELSE UNCHANGED <<tree, blocks, watch, events>>
            /\ Finish(t, IF r.err # NoErr THEN Err("pbftsm finalized failed") ELSE Ok(Nil))
    /\ ncalls' = ncalls + 1
    /\ UNCHANGED <<genesis, closes, latest>>

\* Process, case types.DoneMessage: pbft.Finalize, which on success commits
\* the staged tree, advances the tree cache, appends the link and notifies.
ProcessDone(t) ==
    /\ CanStart(t)
    /\ \E id \in Ids :
       \E sig \in Signatures(IF pbft.psig = Nil THEN Nil ELSE MarshalBinary(pbft.psig)) :
        LET r == PbftFinalize(id, sig)
        IN  /\ msg' = [msg EXCEPT ![t] = [entry |-> "Process", type |-> "Done",
                                          id |-> id, sig |-> sig]]
            /\ loc' = [loc EXCEPT ![t].ops = @ \cup {"Finalize"}, ![t].err = r.err]
            /\ pbft' = r.sm
            /\ IF r.store
               THEN /\ tree' = pbft.staged
                    /\ blocks' = Append(blocks, pbft.block)
                    /\ watch' = Delivered(watch, pbft.block)
                    /\ events' = Append(events, pbft.block.index)
               ELSE UNCHANGED <<tree, blocks, watch, events>>
            /\ Finish(t, IF r.err # NoErr THEN Err("pbftsm finalized failed") ELSE Ok(Nil))
    /\ ncalls' = ncalls + 1
    /\ UNCHANGED <<genesis, closes, latest>>

\* The ids a view may contest: the block in flight, or the block that
\* increments x on top of the store.
ViewIds ==
    {Digest([index |-> Len(blocks), back |-> LastDigest,
             root |-> Root(Execute(tree, "incx")), payload |-> "incx"])}
    \cup (IF pbft.id = Nil THEN {} ELSE {pbft.id})

\* A Process that builds the view without the address of the request.
ProcessViewNoSender(t) ==
    /\ CanStart(t)
    /\ \E from \in Addrs, id \in ViewIds, leader \in {1, 2} :
        LET view == [from |-> "a1", id |-> id, leader |-> leader]
        IN  /\ msg' = [msg EXCEPT ![t] = [entry |-> "Process", type |-> "View",
                                          address |-> from,
                                          id |-> id, leader |-> leader]]
            /\ pbft' = PbftAccept(view)
            /\ loc' = [loc EXCEPT ![t].ops = @ \cup {"Accept"}, ![t].view = view]
    /\ Finish(t, Ok(Nil))
    /\ ncalls' = ncalls + 1
    /\ UNCHANGED <<genesis, tree, events, closes, blocks, latest, watch>>

\* Process, case types.ViewMessage: the view is built from the request's
\* address and the message, and handed to pbft.Accept.
ProcessView(t) ==
    /\ CanStart(t)
    /\ \E from \in Addrs, id \in ViewIds, leader \in {1, 2} :
        LET view == [from |-> from, id |-> id, leader |-> leader]
        IN  /\ msg' = [msg EXCEPT ![t] = [entry |-> "Process", type |-> "View",
                                          address |-> from,
                                          id |-> id, leader |-> leader]]
            /\ pbft' = PbftAccept(view)
            /\ loc' = [loc EXCEPT ![t].ops = @ \cup {"Accept"}, ![t].view = view]
    /\ Finish(t, Ok(Nil))
    /\ ncalls' = ncalls + 1
    /\ UNCHANGED <<genesis, tree, events, closes, blocks, latest, watch>>

\* Process, default case: any other message.
ProcessUnsupported(t) ==
    /\ CanStart(t)
    /\ \E ty \in {"Block", "Commit", "Other"} :
        msg' = [msg EXCEPT ![t] = [entry |-> "Process", type |-> ty]]
    /\ Finish(t, Err("unsupported message"))
    /\ ncalls' = ncalls + 1
    /\ UNCHANGED <<genesis, tree, events, closes, blocks, latest, pbft, loc, watch>>

\* The entry point has returned and its watcher is gone: the goroutine takes
\* the next message.
Return(t) ==
    /\ pc[t] = "done"
    /\ ~watch[t].sub
    /\ pc' = [pc EXCEPT ![t] = "idle"]
    /\ msg' = [msg EXCEPT ![t] = Nil]
    /\ loc' = [loc EXCEPT ![t] = NoLoc]
    /\ watch' = [watch EXCEPT ![t] = NoWatch]
    /\ ret' = [ret EXCEPT ![t] = Nil]
    /\ UNCHANGED <<genesis, tree, events, closes, blocks, latest, pbft, ncalls>>

\* ------------------------------------------------------------ environment

\* The synchronizer stores a link it fetched from a peer.
SyncAppend ==
    /\ Len(blocks) < MaxBlocks
    /\ LET b == [index |-> Len(blocks), back |-> LastDigest, root |-> Root(tree),
                 payload |-> "nop"]
       IN  /\ blocks' = Append(blocks, b)
           /\ watch' = Delivered(watch, b)
    /\ UNCHANGED <<genesis, tree, events, closes, latest, pbft, pc, msg, loc, ret, ncalls>>

\* The synchronizer learns of a higher index; GetLatest() never decreases.
AdvanceLatest ==
    /\ latest < MaxLatest
    /\ latest' = latest + 1
    /\ UNCHANGED <<genesis, tree, events, closes, blocks, pbft, pc, msg, loc, watch, ret, ncalls>>

\* The caller gives up a call that is waiting for the catch-up. Invoke takes
\* no context and derives its own from context.Background(), so nothing of the
\* handler changes.
OuterCancel(t) ==
    /\ pc[t] = "bWait"
    /\ ~watch[t].cancelled
    /\ ~loc[t].outer
    /\ loc' = [loc EXCEPT ![t].outer = TRUE]
    /\ UNCHANGED <<genesis, tree, events, closes, blocks, latest, pbft, pc, msg, watch, ret, ncalls>>

\* ---------------------------------------------------------- specifications

\* The steps of storeGenesis behind Process(GenesisMessage).
GenesisStep(t) ==
    \/ StoreGenesisStage(t)
    \/ StoreGenesisCommit(t)
    \/ StoreGenesisSet(t)
    \/ StoreGenesisNotify(t)
    \/ StoreGenesisClose(t)

\* The steps of Invoke(BlockMessage) after the subscription.
BlockStep(t) ==
    \/ BlockCheck(t)
    \/ BlockRecv(t)
    \/ BlockLoopEnd(t)
    \/ BlockPrepare(t)

\* A message handled in one step.
QuickCall(t) ==
    \/ InvokeCommit(t)
    \/ InvokeUnsupported(t)
    \/ ProcessDone(t)
    \/ ProcessView(t)
    \/ ProcessUnsupported(t)

Next ==
    \/ \E t \in Workers : ProcessGenesis(t) \/ GenesisStep(t)
    \/ \E t \in Workers : InvokeBlock(t) \/ BlockStep(t) \/ WatchClose(t) \/ OuterCancel(t)
    \/ QuickCall(Quick)
    \/ BuildCommit(Leader)
    \/ \E t \in Threads : Return(t)
    \/ SyncAppend
    \/ AdvanceLatest

Spec == Init /\ [][Next]_vars

\* A replica that does not lag: the synchronizer announces nothing and stores
\* nothing, so line 70 never finds GetLatest() > Len().
NextInSync ==
    \/ \E t \in Workers : ncalls < MaxCalls /\ ProcessGenesis(t)
    \/ \E t \in Workers : GenesisStep(t)
    \/ \E t \in Workers : ncalls < MaxCalls /\ InvokeBlock(t)
    \/ \E t \in Workers : BlockCheck(t) \/ BlockPrepare(t)
    \/ \E t \in Workers : WatchClose(t)
    \/ ncalls < MaxCalls /\ InvokeCommit(Quick)
    \/ ncalls < MaxCalls /\ InvokeUnsupported(Quick)
    \/ ncalls < MaxCalls /\ ProcessDone(Quick)
    \/ ncalls < MaxCalls /\ ProcessView(Quick)
    \/ ncalls < MaxCalls /\ ProcessUnsupported(Quick)
    \/ \E t \in Threads : Return(t)

SpecInSync == Init /\ [][NextInSync]_vars

\* A lagging replica: block messages arrive one after the other while the
\* synchronizer announces and stores links.
Waiters == {"t1"}
NextCatchUp ==
    \/ \E t \in Waiters : ncalls < MaxWaits /\ InvokeBlock(t)
    \/ \E t \in Waiters : BlockCheck(t)
    \/ \E t \in Waiters : BlockRecv(t)
    \/ \E t \in Waiters : BlockLoopEnd(t)
    \/ \E t \in Waiters : BlockPrepare(t)
    \/ \E t \in Waiters : WatchClose(t)
    \/ \E t \in Waiters : OuterCancel(t)
    \/ \E t \in Waiters : Return(t)
    \/ SyncAppend
    \/ AdvanceLatest

SpecCatchUp == Init /\ [][NextCatchUp]_vars

\* The goroutines of the handler and of the watcher are scheduled; the
\* synchronizer owes nothing.
FairCatchUp ==
    /\ SpecCatchUp
    /\ \A t \in Waiters : WF_vars(BlockStep(t)) /\ WF_vars(WatchClose(t))

\* A leader and a follower in the commit phase: the follower prepares a
\* block, the leader builds commit requests, the follower takes commit messages.
NextCommitRequest ==
    \/ ncalls < MaxCalls /\ InvokeBlock("t1")
    \/ BlockCheck("t1")
    \/ BlockPrepare("t1")
    \/ WatchClose("t1")
    \/ ncalls < MaxCalls /\ BuildCommit(Leader)
    \/ ncalls < MaxCalls /\ InvokeCommit(Quick)
    \/ \E t \in Threads : Return(t)

SpecCommitRequest == Init /\ [][NextCommitRequest]_vars

\* Consensus next to the synchronizer: a follower takes block, commit, done
\* and view messages while the synchronizer stores the links it fetched.
NextChain ==
    \/ ncalls < MaxCalls /\ InvokeBlock("t1")
    \/ BlockCheck("t1")
    \/ BlockPrepare("t1")
    \/ WatchClose("t1")
    \/ ncalls < MaxCalls /\ InvokeCommit(Quick)
    \/ ncalls < MaxCalls /\ ProcessDone(Quick)
    \/ ncalls < MaxCalls /\ ProcessView(Quick)
    \/ \E t \in Threads : Return(t)
    \/ Len(blocks) < MaxSynced /\ SyncAppend

SpecChain == Init /\ [][NextChain]_vars

\* A view change: the genesis is delivered first and, once the node has
\* started, block and view messages; a second goroutine takes the proposals
\* of the leader a view change elected.
NextViews ==
    \/ ncalls = 0 /\ ProcessGenesis("t2")
    \/ GenesisStep("t2")
    \/ closes = 1 /\ InvokeBlock("t1")
    \/ closes = 1 /\ pbft.leader # 0 /\ InvokeBlock("t2")
    \/ \E t \in Workers : BlockCheck(t)
    \/ \E t \in Workers : BlockPrepare(t)
    \/ \E t \in Workers : WatchClose(t)
    \/ closes = 1 /\ ProcessView(Quick)
    \/ \E t \in Threads : Return(t)

SpecViews == Init /\ [][NextViews]_vars

\* A started node going through consensus rounds: the genesis is delivered
\* first, then block, commit and done messages.
NextRotation ==
    \/ ncalls = 0 /\ ProcessGenesis("t2")
    \/ GenesisStep("t2")
    \/ closes = 1 /\ InvokeBlock("t1")
    \/ BlockCheck("t1")
    \/ BlockPrepare("t1")
    \/ WatchClose("t1")
    \/ closes = 1 /\ InvokeCommit(Quick)
    \/ closes = 1 /\ ProcessDone(Quick)
    \/ \E t \in Threads : Return(t)

SpecRotation == Init /\ [][NextRotation]_vars

\* The catch-up gate next to a synchronizer that is a few links ahead: the
\* links are stored while the handler subscribes, compares and waits.
NextWakeUp ==
    \/ ncalls < MaxWaits /\ InvokeBlock("t1")
    \/ BlockCheck("t1")
    \/ BlockRecv("t1")
    \/ BlockLoopEnd("t1")
    \/ BlockPrepare("t1")
    \/ WatchClose("t1")
    \/ Return("t1")
    \/ Len(blocks) < MaxSynced /\ SyncAppend
    \/ latest < MaxSynced /\ AdvanceLatest

SpecWakeUp == Init /\ [][NextWakeUp]_vars

\* The goroutines of the handler and of the watcher are scheduled; the
\* synchronizer owes nothing.
FairWakeUp ==
    /\ SpecWakeUp
    /\ WF_vars(BlockStep("t1")) /\ WF_vars(WatchClose("t1"))

\* ------------------------------------------- ledger/byzcoin: the roster

\* Participants a roster may hold.
MaxLen == 2
\* Calls of GetNext a caller makes on an exhausted iterator.
MaxExtra == 1

\* Addresses and public keys of participants, and an address of no roster.
Addresses == {"a1", "a2"}
PublicKeys == {"k1", "k2"}
Stranger == "a3"

\* Sequences over S of length at most n.
RECURSIVE SeqsUpTo(_, _)
SeqsUpTo(S, n) ==
    IF n = 0 THEN {<<>>}
    ELSE LET shorter == SeqsUpTo(S, n - 1)
         IN  shorter \cup {Append(q, x) : q \in {q \in shorter : Len(q) = n - 1}, x \in S}

\* type roster struct { addrs; pubkeys }: two slices of one length, as
\* rosterFactory.New and FromProto build them. The same address may be
\* listed twice.
ByzRosters ==
    {[addrs |-> a, pubkeys |-> k] :
        <<a, k>> \in {ak \in SeqsUpTo(Addresses, MaxLen) \X SeqsUpTo(PublicKeys, MaxLen) :
                        Len(ak[1]) = Len(ak[2])}}

\* roster.Len().
RosterLen(r) == Len(r.addrs)

\* iterator.HasNext(): index < roster.Len().
HasNext(i) == i.index < RosterLen(i.roster)

\* iterator.GetNext(): returns the index and moves on; no bound check of
\* its own.
GetNext(i) == [res |-> i.index, it |-> [i EXCEPT !.index = @ + 1]]

\* An addressIterator.GetNext that moves on although nothing is left.
addressGetNextMovesOn(i) ==
    IF HasNext(i)
    THEN LET n == GetNext(i) IN [res |-> <<i.roster.addrs[n.res + 1]>>, it |-> n.it]
    ELSE [res |-> Nil, it |-> GetNext(i).it]

\* addressIterator.GetNext(): the next address, or nil with the iterator
\* left as it is. A non-nil result is wrapped in a tuple of one.
addressGetNext(i) ==
    IF HasNext(i)
    THEN LET n == GetNext(i) IN [res |-> <<i.roster.addrs[n.res + 1]>>, it |-> n.it]
    ELSE [res |-> Nil, it |-> i]

\* publicKeyIterator.GetNext(): the next public key, or nil.
publicKeyGetNext(i) ==
    IF HasNext(i)
    THEN LET n == GetNext(i) IN [res |-> <<i.roster.pubkeys[n.res + 1]>>, it |-> n.it]
    ELSE [res |-> Nil, it |-> i]

\* The loop of roster.GetPublicKey from slice position i on.
RECURSIVE ScanPublicKey(_, _, _)
ScanPublicKey(r, target, i) ==
    IF i >= Len(r.addrs) THEN [key |-> Nil, index |-> -1]
    ELSE IF r.addrs[i + 1] = target THEN [key |-> <<r.pubkeys[i + 1]>>, index |-> i]
    ELSE ScanPublicKey(r, target, i + 1)

\* roster.GetPublicKey(target): the key and the index of the first
\* participant with that address, (nil, -1) when there is none.
GetPublicKey(r, target) == ScanPublicKey(r, target, 0)

\* viewchange.ChangeSet: players to add and indices to remove.
ChangeSets ==
    {[add |-> a, remove |-> rm] :
        a \in {<<>>, <<[addr |-> "a2", pubkey |-> "k2"]>>}, rm \in {{}, {0}}}

\* An Apply that carries the change set out.
ApplyChanges(r, cs) ==
    LET keep == {i \in 1..Len(r.addrs) : (i - 1) \notin cs.remove}
        F[i \in 0..Len(r.addrs)] ==
            IF i = 0 THEN [addrs |-> <<>>, pubkeys |-> <<>>]
            ELSE IF i \in keep
                 THEN [addrs |-> Append(F[i - 1].addrs, r.addrs[i]),
                       pubkeys |-> Append(F[i - 1].pubkeys, r.pubkeys[i])]
                 ELSE F[i - 1]
        kept == F[Len(r.addrs)]
    IN  [addrs |-> kept.addrs \o [j \in 1..Len(cs.add) |-> cs.add[j].addr],
         pubkeys |-> kept.pubkeys \o [j \in 1..Len(cs.add) |-> cs.add[j].pubkey]]

\* roster.Apply(ChangeSet): returns the receiver (the body is a TODO).
Apply(r, cs) == r

\* What a caller holds of an iterator: the iterator, the results of its
\* GetNext calls in order, and for each HasNext call the number of GetNext
\* calls made before it and its answer.
Holding(i) == [it |-> i, got |-> <<>>, has |-> {}]

\* r.AddressIterator(): a fresh iterator over a copy of the roster.
AddressIterator(t) ==
    /\ CanStart(t)
    /\ \E r \in ByzRosters :
        /\ msg' = [msg EXCEPT ![t] = [entry |-> "AddressIterator", type |-> "Iterate",
                                      roster |-> r]]
        /\ loc' = [loc EXCEPT ![t] = Holding([index |-> 0, roster |-> r])]
    /\ pc' = [pc EXCEPT ![t] = "iter"]
    /\ ncalls' = ncalls + 1
    /\ UNCHANGED <<genesis, tree, events, closes, blocks, latest, pbft, watch, ret>>

\* r.PublicKeyIterator().
PublicKeyIterator(t) ==
    /\ CanStart(t)
    /\ \E r \in ByzRosters :
        /\ msg' = [msg EXCEPT ![t] = [entry |-> "PublicKeyIterator", type |-> "Iterate",
                                      roster |-> r]]
        /\ loc' = [loc EXCEPT ![t] = Holding([index |-> 0, roster |-> r])]
    /\ pc' = [pc EXCEPT ![t] = "iter"]
    /\ ncalls' = ncalls + 1
    /\ UNCHANGED <<genesis, tree, events, closes, blocks, latest, pbft, watch, ret>>

\* The caller asks it.HasNext().
CallHasNext(t) ==
    /\ pc[t] = "iter"
    /\ LET h == [at |-> Len(loc[t].got), res |-> HasNext(loc[t].it)]
       IN  /\ h \notin loc[t].has
           /\ loc' = [loc EXCEPT ![t].has = @ \cup {h}]
    /\ UNCHANGED <<genesis, tree, events, closes, blocks, latest, pbft, pc, msg, watch,
                   ret, ncalls>>

\* The caller asks it.GetNext() of the iterator it holds.
CallGetNext(t) ==
    /\ pc[t] = "iter"
    /\ Len(loc[t].got) < RosterLen(msg[t].roster) + MaxExtra
    /\ LET n == IF msg[t].entry = "AddressIterator"
                THEN addressGetNext(loc[t].it)
                ELSE publicKeyGetNext(loc[t].it)
       IN  loc' = [loc EXCEPT ![t].it = n.it, ![t].got = Append(@, n.res)]
    /\ UNCHANGED <<genesis, tree, events, closes, blocks, latest, pbft, pc, msg, watch,
                   ret, ncalls>>

\* The caller is through with the iterator.
IteratorDrop(t) ==
    /\ pc[t] = "iter"
    /\ Finish(t, Ok(Nil))
    /\ UNCHANGED <<genesis, tree, events, closes, blocks, latest, pbft, msg, loc, watch,
                   ncalls>>

\* A call of r.GetPublicKey(target).
CallGetPublicKey(t) ==
    /\ CanStart(t)
    /\ \E r \in ByzRosters : \E target \in Addresses \cup {Stranger} :
        /\ msg' = [msg EXCEPT ![t] = [entry |-> "GetPublicKey", type |-> "Lookup",
                                      roster |-> r, target |-> target]]
        /\ Finish(t, GetPublicKey(r, target))
    /\ ncalls' = ncalls + 1
    /\ UNCHANGED <<genesis, tree, events, closes, blocks, latest, pbft, loc, watch>>

\* A call of r.Apply(cs).
CallApply(t) ==
    /\ CanStart(t)
    /\ \E r \in ByzRosters : \E cs \in ChangeSets :
        /\ msg' = [msg EXCEPT ![t] = [entry |-> "Apply", type |-> "Evolve",
                                      roster |-> r, changes |-> cs]]
        /\ Finish(t, Apply(r, cs))
    /\ ncalls' = ncalls + 1
    /\ UNCHANGED <<genesis, tree, events, closes, blocks, latest, pbft, loc, watch>>

\* A caller of the roster: it iterates, looks keys up and applies change
\* sets, one call after the other.
NextRoster ==
    \/ ncalls < MaxCalls /\ AddressIterator(Quick)
    \/ ncalls < MaxCalls /\ PublicKeyIterator(Quick)
    \/ CallHasNext(Quick)
    \/ CallGetNext(Quick)
    \/ IteratorDrop(Quick)
    \/ ncalls < MaxCalls /\ CallGetPublicKey(Quick)
    \/ ncalls < MaxCalls /\ CallApply(Quick)
    \/ Return(Quick)

SpecRoster == Init /\ [][NextRoster]_vars

\* ------------------------------------------------- the JSON request codec

\* Highest block index and range end a message names.
MaxIndex == 1

\* JSON texts: an object is <<"obj", members>> with the members a sequence
\* of <<name, value>> in the order they are written; numbers, byte strings
\* and strings are tagged leaves. Nil is an absent member.
JNum(n) == <<"num", n>>
JBytes(b) == <<"b64", b>>
JStr(x) == <<"str", x>>
JObj(members) == <<"obj", members>>
IsObj(v) == Len(v) = 2 /\ v[1] = "obj"

\* encoding/json reading member `name` of an object: the last member of
\* that name wins, whatever its place; Nil when there is none.
Member(o, name) ==
    LET hits == {i \in 1..Len(o[2]) : o[2][i][1] = name}
    IN  IF hits = {} THEN Nil
        ELSE o[2][CHOOSE i \in hits : \A j \in hits : j <= i][2]

\* Whether a member, when present, has the JSON type of its Go field.
Typed(v, tag) == v = Nil \/ v[1] = tag

\* Block payloads: one that serializes and one whose Serialize fails.
BlockPayloads == {"tx", "unserializable"}
SerializePayload(pl) == IF pl = "tx" THEN JObj(<<<<"Tx", JStr(pl)>>>>) ELSE Nil
\* The payload factory of the context: Deserialize of the payload bytes.
DeserializePayload(data) ==
    IF data # Nil /\ IsObj(data) /\ Member(data, "Tx") = JStr("tx") THEN <<"tx">> ELSE Nil

\* types.SkipBlock as the format sees it: index, genesis id, back link and
\* payload.
Digests == {"d0", "d1"}
SkipBlocks ==
    {[Index |-> i, GenesisID |-> "d0", BackLink |-> b, Payload |-> pl] :
        i \in 0..MaxIndex, b \in Digests, pl \in BlockPayloads}

\* blockFormat.Encode: the payload is serialized and the JSON SkipBlock
\* marshalled with its members in the order of the struct.
blockFormatEncode(block) ==
    LET payload == SerializePayload(block.Payload)
    IN  IF payload = Nil
        THEN [data |-> Nil, err |-> "couldn't serialize payload"]
        ELSE [data |-> JObj(<<<<"Index", JNum(block.Index)>>,
                               <<"GenesisID", JBytes(block.GenesisID)>>,
                               <<"Backlink", JBytes(block.BackLink)>>,
                               <<"Payload", payload>>>>),
              err |-> NoErr]

\* blockFormat.Decode: unmarshal, look the payload factory up in the
\* context, deserialize the payload and build the block; a missing member is
\* the zero value of its field.
blockFormatDecode(ctx, data) ==
    IF \/ data = Nil
       \/ ~IsObj(data)
       \/ ~Typed(Member(data, "Index"), "num")
       \/ ~Typed(Member(data, "GenesisID"), "b64")
       \/ ~Typed(Member(data, "Backlink"), "b64")
    THEN [msg |-> Nil, err |-> "couldn't deserialize message"]
    ELSE IF ~ctx.factory
    THEN [msg |-> Nil, err |-> "payload factory is missing"]
    ELSE LET payload == DeserializePayload(Member(data, "Payload"))
         IN  IF payload = Nil
             THEN [msg |-> Nil, err |-> "couldn't deserialize payload"]
             ELSE [msg |-> [Index |-> IF Member(data, "Index") = Nil THEN 0
                                      ELSE Member(data, "Index")[2],
                            GenesisID |-> IF Member(data, "GenesisID") = Nil THEN ""
                                          ELSE Member(data, "GenesisID")[2],
                            BackLink |-> IF Member(data, "Backlink") = Nil THEN ""
                                         ELSE Member(data, "Backlink")[2],
                            Payload |-> payload[1]],
                   err |-> NoErr]

\* The messages handed to requestFormat.Encode: the three requests and a
\* message of another type.
PropagateGenesis(b) == [kind |-> "PropagateGenesis", genesis |-> b]
BlockRequest(from, to) == [kind |-> "BlockRequest", from |-> from, to |-> to]
BlockResponse(b) == [kind |-> "BlockResponse", block |-> b]
RequestMessages ==
    {PropagateGenesis(b) : b \in SkipBlocks}
    \cup {BlockRequest(f, to) : f \in 0..MaxIndex, to \in 0..MaxIndex}
    \cup {BlockResponse(b) : b \in SkipBlocks}
    \cup {[kind |-> "Blueprint"]}

\* The container Request{Propagate, Request, Response} with no member set.
EmptyRequest == [Propagate |-> Nil, Request |-> Nil, Response |-> Nil]

\* ctx.Marshal(req): the members whose pointer is set, in the order of the
\* struct (all three are omitempty).
MarshalRequest(req) ==
    JObj(SelectSeq(<<<<"Propagate", req.Propagate>>, <<"Request", req.Request>>,
                     <<"Response", req.Response>>>>,
                   LAMBDA m : m[2] # Nil))

\* The switch of requestFormat.Encode: the container for the message, one
\* member set, or the error.
requestOf(in) ==
    IF in.kind = "PropagateGenesis"
    THEN LET block == blockFormatEncode(in.genesis)
         IN  IF block.err # NoErr
             THEN [req |-> Nil, err |-> "couldn't serialize genesis"]
             ELSE [req |-> [EmptyRequest EXCEPT
                                !.Propagate = JObj(<<<<"Genesis", block.data>>>>)],
                   err |-> NoErr]
    ELSE IF in.kind = "BlockRequest"
    THEN [req |-> [EmptyRequest EXCEPT
                        !.Request = JObj(<<<<"From", JNum(in.from)>>,
                                           <<"To", JNum(in.to)>>>>)],
          err |-> NoErr]
    ELSE IF in.kind = "BlockResponse"
    THEN LET block == blockFormatEncode(in.block)
         IN  IF block.err # NoErr
             THEN [req |-> Nil, err |-> "couldn't serialize block"]
             ELSE [req |-> [EmptyRequest EXCEPT
                                !.Response = JObj(<<<<"Block", block.data>>>>)],
                   err |-> NoErr]
    ELSE [req |-> Nil, err |-> "unsupported message"]

\* An Encode that writes a response under the member of the request.
requestFormatEncodeMixesUp(in) ==
    LET r == requestOf(in)
    IN  IF r.err # NoErr THEN [data |-> Nil, err |-> r.err]
        ELSE [data |-> MarshalRequest([Propagate |-> r.req.Propagate,
                                       Request |-> IF r.req.Response # Nil
                                                   THEN r.req.Response ELSE r.req.Request,
                                       Response |-> Nil]),
              err |-> NoErr]

\* requestFormat.Encode(ctx, msg): the bytes, or the error.
requestFormatEncode(in) ==
    LET r == requestOf(in)
    IN  IF r.err # NoErr THEN [data |-> Nil, err |-> r.err]
        ELSE [data |-> MarshalRequest(r.req), err |-> NoErr]

\* ctx.Unmarshal(data, &m) into the container: each member an object or
\* absent, From and To numbers.
UnmarshalRequest(data) ==
    IF \/ ~IsObj(data)
       \/ \E name \in {"Propagate", "Request", "Response"} : ~Typed(Member(data, name), "obj")
       \/ /\ Member(data, "Request") # Nil
          /\ \/ ~Typed(Member(Member(data, "Request"), "From"), "num")
             \/ ~Typed(Member(Member(data, "Request"), "To"), "num")
    THEN [m |-> Nil, err |-> "couldn't deserialize message"]
    ELSE [m |-> [Propagate |-> Member(data, "Propagate"),
                 Request |-> Member(data, "Request"),
                 Response |-> Member(data, "Response")],
          err |-> NoErr]

\* requestFormat.Decode(ctx, data): Propagate is looked at first, then
\* Request, then Response.
requestFormatDecode(ctx, data) ==
    LET u == UnmarshalRequest(data)
        m == u.m
    IN  IF u.err # NoErr THEN [msg |-> Nil, err |-> u.err]
        ELSE IF m.Propagate # Nil
        THEN LET first == blockFormatDecode(ctx, Member(m.Propagate, "Genesis"))
             IN  IF first.err # NoErr
                 THEN [msg |-> Nil, err |-> "couldn't deserialize genesis"]
                 ELSE [msg |-> PropagateGenesis(first.msg), err |-> NoErr]
        ELSE IF m.Request # Nil
        THEN LET from == Member(m.Request, "From")
                 to == Member(m.Request, "To")
             IN  [msg |-> BlockRequest(IF from = Nil THEN 0 ELSE from[2],
                                       IF to = Nil THEN 0 ELSE to[2]),
                  err |-> NoErr]
        ELSE IF m.Response # Nil
        THEN LET block == blockFormatDecode(ctx, Member(m.Response, "Block"))
             IN  IF block.err # NoErr
                 THEN [msg |-> Nil, err |-> "couldn't deserialize block"]
                 ELSE [msg |-> BlockResponse(block.msg), err |-> NoErr]
        ELSE [msg |-> Nil, err |-> "message is empty"]

\* The contexts a receiver decodes with: with and without the payload
\* factory.
Contexts == {[factory |-> TRUE], [factory |-> FALSE]}

\* Members as a peer may write them into a container.
SomeBlock == [Index |-> 1, GenesisID |-> "d0", BackLink |-> "d1", Payload |-> "tx"]
SomePropagate == JObj(<<<<"Genesis", blockFormatEncode(SomeBlock).data>>>>)
SomeRequest == JObj(<<<<"To", JNum(1)>>, <<"From", JNum(0)>>>>)
SomeResponse == JObj(<<<<"Block", blockFormatEncode([SomeBlock EXCEPT !.Index = 0]).data>>>>)

\* The members of an object written in the opposite order.
Reversed(o) == JObj([i \in 1..Len(o[2]) |-> o[2][Len(o[2]) + 1 - i]])

\* Bytes a peer may send besides what Encode wrote: containers with any of
\* the members set, in either order, a request with no bounds, a response
\* whose block has no payload, and a text that is no object.
CraftedRequests ==
    LET containers == {MarshalRequest([Propagate |-> p, Request |-> r, Response |-> x]) :
                            p \in {Nil, SomePropagate}, r \in {Nil, SomeRequest},
                            x \in {Nil, SomeResponse}}
    IN  containers
        \cup {Reversed(c) : c \in containers}
        \cup {JObj(<<<<"Request", JObj(<<>>)>>>>),
              JObj(<<<<"Response", JObj(<<<<"Block", JObj(<<>>)>>>>)>>>>),
              JStr("garbage")}

\* A sender encodes a message: a call of requestFormat.Encode.
CallEncode(t) ==
    /\ CanStart(t)
    /\ \E m \in RequestMessages :
        LET r == requestFormatEncode(m)
        IN  /\ msg' = [msg EXCEPT ![t] = [entry |-> "Encode", type |-> "Codec", message |-> m]]
            /\ Finish(t, [reply |-> r.data, err |-> r.err])
    /\ ncalls' = ncalls + 1
    /\ UNCHANGED <<genesis, tree, events, closes, blocks, latest, pbft, loc, watch>>

\* What is on the wire for receiver t: the bytes a sender got from Encode,
\* and crafted ones.
OnTheWire(t) ==
    {ret[u].reply : u \in {u \in Threads \ {t} :
                            /\ pc[u] = "done"
                            /\ msg[u].entry = "Encode"
                            /\ ret[u].err = NoErr}}
    \cup CraftedRequests

\* A receiver decodes bytes: a call of requestFormat.Decode.
CallDecode(t) ==
    /\ CanStart(t)
    /\ \E data \in OnTheWire(t) : \E ctx \in Contexts :
        LET r == requestFormatDecode(ctx, data)
        IN  /\ msg' = [msg EXCEPT ![t] = [entry |-> "Decode", type |-> "Codec",
                                          data |-> data, ctx |-> ctx]]
            /\ Finish(t, [reply |-> r.msg, err |-> r.err])
    /\ ncalls' = ncalls + 1
    /\ UNCHANGED <<genesis, tree, events, closes, blocks, latest, pbft, loc, watch>>

\* A sender and a receiver of requests.
NextCodec ==
    \/ ncalls < MaxCalls /\ CallEncode("t1")
    \/ ncalls < MaxCalls /\ CallDecode(Quick)
    \/ \E t \in Threads : Return(t)

SpecCodec == Init /\ [][NextCodec]_vars

\* ------------------------------------------------- serde: JSON serializer

\* The messages of the serializer's tests: block{Index, Value} and
\* badMessage{err}, whose visit returns a value that does not marshal
\* together with err.
SerdeMessages ==
    {[type |-> "block", Index |-> i, Value |-> v] :
        i \in (0..MaxIndex) \cup {42}, v \in {"", "Hello World!"}}
    \cup {[type |-> "badMessage", err |-> e] : e \in {NoErr, "oops"}}

\* block.VisitJSON and badMessage.VisitJSON: the value to marshal and the
\* error.
blockVisitJSON(m) ==
    [itf |-> [type |-> "blockMessage", Index |-> m.Index, Value |-> m.Value], err |-> NoErr]
badMessageVisitJSON(m) == [itf |-> [type |-> "badJSON"], err |-> m.err]
VisitJSON(m) == IF m.type = "block" THEN blockVisitJSON(m) ELSE badMessageVisitJSON(m)

\* json.Marshal of the visited value: the members of blockMessage in the
\* order of the struct; badJSON.MarshalJSON returns an error.
jsonMarshal(itf) ==
    IF itf.type = "blockMessage"
    THEN [data |-> JObj(<<<<"Index", JNum(itf.Index)>>, <<"Value", JStr(itf.Value)>>>>),
          err |-> NoErr]
    ELSE [data |-> Nil, err |-> "error calling MarshalJSON"]

\* Serializer.Serialize(m): visit the message, marshal what the visit
\* returned.
SerializerSerialize(m) ==
    LET v == VisitJSON(m)
    IN  IF v.err # NoErr THEN [data |-> Nil, err |-> "couldn't visit message"]
        ELSE LET e == jsonMarshal(v.itf)
             IN  IF e.err # NoErr THEN [data |-> Nil, err |-> "couldn't encode"]
                 ELSE [data |-> e.data, err |-> NoErr]

\* factoryInput.Feed(&blockMessage{}): json.Unmarshal of the data, members
\* read by name, an absent member left at its zero value.
Feed(data) ==
    IF \/ ~IsObj(data)
       \/ ~Typed(Member(data, "Index"), "num")
       \/ ~Typed(Member(data, "Value"), "str")
    THEN [m |-> Nil, err |-> "couldn't unmarshal"]
    ELSE [m |-> [type |-> "blockMessage",
                 Index |-> IF Member(data, "Index") = Nil THEN 0 ELSE Member(data, "Index")[2],
                 Value |-> IF Member(data, "Value") = Nil THEN "" ELSE Member(data, "Value")[2]],
          err |-> NoErr]

\* A blockFactory that takes the members by their place in the text.
blockFactoryVisitByPlace(data) ==
    IF ~IsObj(data) \/ Len(data[2]) # 2 \/ data[2][1][2][1] # "num" \/ data[2][2][2][1] # "str"
    THEN [msg |-> Nil, err |-> "couldn't unmarshal"]
    ELSE [msg |-> [type |-> "block", Index |-> data[2][1][2][2], Value |-> data[2][2][2][2]],
          err |-> NoErr]

\* blockFactory.VisitJSON(input): feed a blockMessage, build the block.
blockFactoryVisitJSON(data) ==
    LET f == Feed(data)
    IN  IF f.err # NoErr THEN [msg |-> Nil, err |-> f.err]
        ELSE [msg |-> [type |-> "block", Index |-> f.m.Index, Value |-> f.m.Value],
              err |-> NoErr]

\* badFactory.VisitJSON(input): always an error.
badFactoryVisitJSON(data) == [msg |-> Nil, err |-> "oops"]

Factories == {"blockFactory", "badFactory"}

\* Serializer.Deserialize(data, factory): the factory visits the input.
SerializerDeserialize(data, factory) ==
    LET v == IF factory = "blockFactory" THEN blockFactoryVisitJSON(data)
             ELSE badFactoryVisitJSON(data)
    IN  IF v.err # NoErr THEN [msg |-> Nil, err |-> "couldn't visit factory"]
        ELSE [msg |-> v.msg, err |-> NoErr]

\* A call of Serialize.
CallSerialize(t) ==
    /\ CanStart(t)
    /\ \E m \in SerdeMessages :
        LET r == SerializerSerialize(m)
        IN  /\ msg' = [msg EXCEPT ![t] = [entry |-> "Serialize", type |-> "Serde", message |-> m]]
            /\ Finish(t, [reply |-> r.data, err |-> r.err])
    /\ ncalls' = ncalls + 1
    /\ UNCHANGED <<genesis, tree, events, closes, blocks, latest, pbft, loc, watch>>

\* The bytes receiver t may be given: what Serialize wrote, the same object
\* with its members in the other order, an object with no member and a text
\* that is no object.
Buffers(t) ==
    LET written == {ret[u].reply : u \in {u \in Threads \ {t} :
                                            /\ pc[u] = "done"
                                            /\ msg[u].entry = "Serialize"
                                            /\ ret[u].err = NoErr}}
    IN  written \cup {Reversed(b) : b \in written} \cup {JObj(<<>>), JStr("garbage")}

\* A call of Deserialize.
CallDeserialize(t) ==
    /\ CanStart(t)
    /\ \E data \in Buffers(t) : \E f \in Factories :
        LET r == SerializerDeserialize(data, f)
        IN  /\ msg' = [msg EXCEPT ![t] = [entry |-> "Deserialize", type |-> "Serde",
                                          data |-> data, factory |-> f]]
            /\ Finish(t, [reply |-> r.msg, err |-> r.err])
    /\ ncalls' = ncalls + 1
    /\ UNCHANGED <<genesis, tree, events, closes, blocks, latest, pbft, loc, watch>>

\* A writer and a reader of serialized messages.
NextSerde ==
    \/ ncalls < MaxCalls /\ CallSerialize("t1")
    \/ ncalls < MaxCalls /\ CallDeserialize(Quick)
    \/ \E t \in Threads : Return(t)

SpecSerde == Init /\ [][NextSerde]_vars

\* ------------------------------------------------------------------ claims

\* A handler that has returned from a message of the given type, taken by
\* the entry point that has a case for it.
Returned(t, ty) ==
    /\ pc[t] = "done"
    /\ msg[t].type = ty
    /\ msg[t].entry = IF ty \in {"Block", "Commit"} THEN "Invoke" ELSE "Process"

\* The step by which handler t takes a genesis message while a genesis exists.
Redelivery(t) ==
    /\ pc[t] = "idle"
    /\ pc'[t] # "idle"
    /\ msg'[t].type = "Genesis"
    /\ genesis # Nil

\* No storeGenesis is under way: the deliveries so far were sequential.
NoStoreRunning == \A t \in Workers : pc[t] \in {"idle", "bCheck", "bWait", "bPrepare", "done"}

\* C1: genesis idempotence. Once a genesis is stored, every further delivery
\* of a GenesisMessage returns no reply and no error in one step and leaves
\* the genesis slot, the tree cache, the events and the started barrier as
\* they are; when a delivery has returned no error the genesis is stored,
\* and between deliveries storeGenesis has then closed the barrier exactly
\* once.
C1_GenesisIdempotent ==
    /\ [][\A t \in Workers : Redelivery(t) =>
            /\ pc'[t] = "done"
            /\ ret'[t] = Ok(Nil)
            /\ UNCHANGED <<genesis, tree, events, closes>>]_vars
    /\ [](\A t \in Workers :
            (Returned(t, "Genesis") /\ ret[t].err = NoErr) =>
                (genesis # Nil /\ (NoStoreRunning => closes = 1)))

\* A second delivery has returned without doing anything.
C1_Witness ==
    \E t \in Workers :
        /\ Returned(t, "Genesis")
        /\ ret[t] = Ok(Nil)
        /\ loc[t].stage = Nil
        /\ genesis # Nil
        /\ closes = 1

\* C2: under any interleaving of concurrent genesis deliveries the started
\* barrier is closed at most once and the genesis slot, once written, is
\* never written again.
C2_ClosedOnce ==
    /\ [](closes <= 1)
    /\ [][genesis # Nil => genesis' = genesis]_vars

\* Two deliveries both passed the Exists() check; one stored the genesis and
\* closed the barrier, the other was stopped by GenesisStore.Set.
C2_Witness ==
    /\ closes = 1
    /\ \E t \in Workers : Returned(t, "Genesis") /\ ret[t].err = "set genesis failed"

\* The errors of the tree and of the genesis construction, which no
\* re-broadcast causes.
TreeFaults == {"tree stage failed", "creating genesis", "tree commit failed"}

\* C3: a delivery of the genesis that is stored (or is being stored by a
\* concurrent delivery) returns no error, unless the tree itself failed: the
\* refusal of GenesisStore.Set never reaches the caller.
C3_RebroadcastNeverErrors ==
    \A t \in Workers :
        ( /\ Returned(t, "Genesis")
          /\ genesis # Nil
          /\ msg[t].roster = genesis.roster
          /\ msg[t].root = genesis.root
          /\ ret[t].err \notin TreeFaults ) => ret[t].err = NoErr

\* C4: while no genesis is set, no PBFT operation has been invoked.
C4_BootstrapBarrier ==
    genesis = Nil => \A t \in Threads : loc[t].ops = {}

\* Whether handler t is past line 70 of a block message.
PastCheck(t) == pc[t] \in {"bWait", "bPrepare"} \/ Returned(t, "Block")

\* C5: catch-up gate. The handler waits exactly when GetLatest() > Len() at
\* line 70; when it waited, pbft.Prepare is reached only after the watcher
\* delivered a link whose index is at least that GetLatest(); when it did not
\* wait, it reaches Prepare without taking a link from the watcher.
C5_CatchUpGate ==
    \A t \in Waiters :
        /\ pc[t] = "bWait" => loc[t].need > loc[t].len0
        /\ (PastCheck(t) /\ loc[t].need > loc[t].len0 /\ pc[t] # "bWait") =>
                loc[t].maxidx >= loc[t].need
        /\ (PastCheck(t) /\ loc[t].need <= loc[t].len0) =>
                (pc[t] # "bWait" /\ loc[t].maxidx = -1)

\* A handler that waited has evaluated Prepare after the link arrived.
C5_Witness ==
    \E t \in Waiters :
        /\ Returned(t, "Block")
        /\ "Prepare" \in loc[t].ops
        /\ loc[t].need > loc[t].len0
        /\ loc[t].maxidx >= loc[t].need

\* The lagging replica of the scenario: Len() = 3 and GetLatest() = 5 at line 70.
Lagging(t) == PastCheck(t) /\ loc[t].len0 = 3 /\ loc[t].need = 5

\* C6 as stated: once the links 3 and 4 are delivered the handler stops
\* waiting and goes on to pbft.Prepare.
C6_AfterLinks3And4 ==
    \A t \in Waiters : (Lagging(t) /\ loc[t].maxidx >= 4) => watch[t].cancelled

\* C6, amended: the lagging replica keeps waiting until the watcher delivers
\* a link of index 5 or more; after the links 3 and 4 alone it is still in
\* the loop with its context live, and pbft.Prepare is evaluated only after
\* a link of index >= 5 was delivered.
C6_WaitsForIndex5 ==
    \A t \in Waiters :
        Lagging(t) =>
            /\ loc[t].maxidx < 5 => (pc[t] = "bWait" /\ ~watch[t].cancelled)
            /\ "Prepare" \in loc[t].ops => loc[t].maxidx >= 5

\* The lagging replica has evaluated Prepare after the link of index 5.
C6_Witness ==
    \E t \in Waiters :
        /\ Lagging(t)
        /\ Returned(t, "Block")
        /\ "Prepare" \in loc[t].ops
        /\ loc[t].maxidx = 5

C8_HandlerTerminates ==
    \A t \in Waiters : (pc[t] = "bWait") ~> (pc[t] = "done")

\* What every entry point owes whatever the message: the PBFT operation of
\* its row of the dispatch table and no other, and an error with an empty
\* reply when that operation fails.
DispatchTable(t) ==
    /\ Returned(t, "Block") =>
        /\ loc[t].ops = {"Prepare"}
        /\ ret[t] = IF loc[t].err = NoErr THEN Ok(Digest(msg[t].block))
                    ELSE Err("pbft prepare failed")
    /\ Returned(t, "Commit") =>
        /\ loc[t].ops = {"Commit"}
        /\ loc[t].err # NoErr => ret[t] = Err("pbft commit failed")
    /\ Returned(t, "Done") =>
        /\ loc[t].ops = {"Finalize"}
        /\ ret[t] = IF loc[t].err = NoErr THEN Ok(Nil) ELSE Err("pbftsm finalized failed")
    /\ Returned(t, "View") =>
        /\ loc[t].ops = {"Accept"}
        /\ loc[t].view = [from |-> msg[t].address, id |-> msg[t].id,
                          leader |-> msg[t].leader]
        /\ ret[t] = Ok(Nil)
    /\ Returned(t, "Genesis") => loc[t].ops = {}

\* The reply to a CommitMessage is the binary encoding of its signature.
RepliesEncoding(t) ==
    /\ ret[t].err = NoErr
    /\ ret[t].reply # Nil
    /\ ret[t].reply = MarshalBinary(msg[t].sig)

\* C9 as stated: the dispatch table, with the encoded signature as the reply
\* to a CommitMessage if and only if Commit succeeded.
C9_DispatchAsStated ==
    \A t \in Threads :
        /\ DispatchTable(t)
        /\ Returned(t, "Commit") => (RepliesEncoding(t) <=> loc[t].err = NoErr)

\* C9, amended: the dispatch table, with the encoded signature as the reply
\* to a CommitMessage if and only if Commit succeeded and the signature
\* marshals; when Commit succeeded and the signature does not marshal, Invoke
\* returns an error and an empty reply.
C9_Dispatch ==
    \A t \in Threads :
        /\ DispatchTable(t)
        /\ Returned(t, "Commit") =>
            /\ RepliesEncoding(t) <=> (loc[t].err = NoErr /\ msg[t].sig.enc)
            /\ (loc[t].err = NoErr /\ ~msg[t].sig.enc) =>
                    ret[t] = Err("couldn't marshal signature")

\* A commit has succeeded and its signature came back encoded.
C9_Witness ==
    \E t \in Threads :
        /\ Returned(t, "Commit")
        /\ loc[t].err = NoErr
        /\ RepliesEncoding(t)
        /\ pbft.phase = "COMMIT"

\* A message outside the table of its entry point.
Outside(m) ==
    \/ m.entry = "Invoke" /\ m.type \notin {"Block", "Commit"}
    \/ m.entry = "Process" /\ m.type \notin {"Genesis", "Done", "View"}

\* C10: a message outside the table of its entry point is answered in one
\* step with the unsupported-message error, and the PBFT state, the tree
\* cache, the genesis slot, the block store and the started barrier stay as
\* they are.
C10_Unsupported ==
    [][\A t \in Threads :
        (pc[t] = "idle" /\ pc'[t] # "idle" /\ Outside(msg'[t])) =>
            /\ pc'[t] = "done"
            /\ ret'[t] = Err("unsupported message")
            /\ UNCHANGED <<pbft, tree, genesis, blocks, closes>>]_vars

\* A DoneMessage sent to Invoke was refused while a block was in flight.
C10_Witness ==
    \E t \in Threads :
        /\ pc[t] = "done"
        /\ msg[t].type = "Done"
        /\ msg[t].entry = "Invoke"
        /\ ret[t] = Err("unsupported message")
        /\ pbft.phase = "COMMIT"

\* ---------------------------------------------------------- phase ordering

\* The steps by which handler t takes a CommitMessage, takes a DoneMessage,
\* returns from pbft.Prepare.
CommitStep(t) ==
    pc[t] = "idle" /\ pc'[t] = "done" /\ msg'[t].entry = "Invoke" /\ msg'[t].type = "Commit"
DoneStep(t) ==
    pc[t] = "idle" /\ pc'[t] = "done" /\ msg'[t].entry = "Process" /\ msg'[t].type = "Done"
PrepareStep(t) == pc[t] = "bPrepare" /\ pc'[t] = "done"

\* A Commit succeeds only from PREPARE(id) and a Finalize only from
\* COMMIT(id), and those states are entered only by a Prepare that returned
\* id and by a Commit of id that succeeded.
InPhaseOrder ==
    /\ \A t \in Threads :
        /\ (CommitStep(t) /\ loc'[t].err = NoErr) =>
                /\ pbft.phase = "PREPARE" /\ pbft.id = msg'[t].id
                /\ pbft'.phase = "COMMIT" /\ pbft'.id = msg'[t].id
        /\ (DoneStep(t) /\ loc'[t].err = NoErr) =>
                (pbft.phase = "COMMIT" /\ pbft.id = msg'[t].id)
    /\ (pbft'.phase = "PREPARE" /\ pbft.phase # "PREPARE") =>
            \E t \in Threads : PrepareStep(t) /\ ret'[t] = Ok(pbft'.id)
    /\ (pbft'.phase = "COMMIT" /\ pbft.phase # "COMMIT") =>
            \E t \in Threads : CommitStep(t) /\ loc'[t].err = NoErr /\ msg'[t].id = pbft'.id

\* A Commit delivered while the state is not PREPARE(id) fails and changes
\* nothing.
CommitOutOfOrder(t) ==
    (CommitStep(t) /\ ~(pbft.phase = "PREPARE" /\ pbft.id = msg'[t].id)) =>
        /\ loc'[t].err # NoErr
        /\ ret'[t] = Err("pbft commit failed")
        /\ UNCHANGED <<pbft, tree, blocks, events>>

\* A Finalize delivered while the state is not COMMIT(id).
DoneOutOfOrder(t) == DoneStep(t) /\ ~(pbft.phase = "COMMIT" /\ pbft.id = msg'[t].id)

\* C11 as stated: phase ordering, and a Commit or a Finalize delivered out of
\* order fails and changes nothing.
C11_OutOfOrderChangesNothing ==
    [][/\ InPhaseOrder
       /\ \A t \in Threads :
            /\ CommitOutOfOrder(t)
            /\ DoneOutOfOrder(t) =>
                    /\ ret'[t] = Err("pbftsm finalized failed")
                    /\ UNCHANGED <<pbft, tree, blocks, events>>]_vars

\* C11, amended: a successful Commit(id) is preceded by a Prepare that
\* returned id and a successful Finalize(id) by a successful Commit(id); a
\* Commit delivered out of order fails and changes nothing; a Finalize
\* delivered out of order fails and leaves the tree cache, the block store
\* and the events as they are, while the state machine drops the block in
\* flight and returns to NONE.
C11_PhaseOrder ==
    [][/\ InPhaseOrder
       /\ \A t \in Threads :
            /\ CommitOutOfOrder(t)
            /\ DoneOutOfOrder(t) =>
                    /\ ret'[t] = Err("pbftsm finalized failed")
                    /\ UNCHANGED <<tree, blocks, events>>
                    /\ pbft' = Idle(pbft)]_vars

\* A block went through Prepare, Commit and Finalize in that order.
C11_Witness ==
    /\ Returned(Quick, "Done")
    /\ loc[Quick].err = NoErr
    /\ Len(blocks) = 1
    /\ blocks[1] = msg["t1"].block

\* ------------------------------------------------------------ commit request

\* Handler t has returned from a call of newCommitRequest.
Built(t) == pc[t] = "done" /\ msg[t].entry = "newCommitRequest"

\* C12: the commit request built from a prepare signature s has GetHash()
\* equal to s.MarshalBinary() and carries s and the block id; no request is
\* built when the marshalling fails; and the bytes a follower returns for a
\* successful CommitMessage carrying s are the hash of the request built
\* from s.
C12_CommitHashIsEncoding ==
    \A b \in Threads :
        Built(b) =>
            LET s == msg[b].prepare
            IN  /\ (ret[b].err # NoErr) <=> (MarshalBinary(s) = Nil)
                /\ ret[b].err # NoErr => ret[b].reply = Nil
                /\ ret[b].err = NoErr =>
                        /\ GetHash(ret[b].reply) = MarshalBinary(s)
                        /\ ret[b].reply.prepare = s
                        /\ ret[b].reply.to = msg[b].to
                /\ \A t \in Threads :
                        (Returned(t, "Commit") /\ ret[t].err = NoErr /\ msg[t].sig = s) =>
                            /\ ret[b].err = NoErr
                            /\ ret[t].reply = GetHash(ret[b].reply)

\* The leader built a request from the signature over the prepared block and
\* the follower answered the commit message carrying it.
C12_Witness ==
    /\ Built(Leader)
    /\ ret[Leader].err = NoErr
    /\ Returned(Quick, "Commit")
    /\ ret[Quick].err = NoErr
    /\ msg[Quick].sig = msg[Leader].prepare
    /\ msg[Leader].to = pbft.id
    /\ pbft.phase = "COMMIT"

\* --------------------------------------------------------------- the chain

\* Every link carries its position as index and the digest of its
\* predecessor (zero for the first) as back link.
ChainLinked ==
    \A i \in 1..Len(blocks) :
        /\ blocks[i].index = i - 1
        /\ blocks[i].back = IF i = 1 THEN ZeroDigest ELSE Digest(blocks[i - 1])

\* The store only grows, by one link at its end, whose index is the length
\* before.
AppendsInOrder ==
    \/ blocks' = blocks
    \/ /\ Len(blocks') = Len(blocks) + 1
       /\ SubSeq(blocks', 1, Len(blocks)) = blocks
       /\ blocks'[Len(blocks')].index = Len(blocks)

\* C13: chain invariant. In every reachable state the chain of length L has
\* block[i].Index = i and block[i].BackLink = digest of block[i-1] (zero for
\* i = 0); the store grows by appends in index order and shows no gap.
C13_ChainInvariant ==
    /\ []ChainLinked
    /\ [][AppendsInOrder]_vars

\* A block was finalized on top of a link the synchronizer stored, and a
\* block prepared before that link arrived was refused.
C13_Witness ==
    /\ Len(blocks) >= 2
    /\ blocks[Len(blocks)].payload # "nop"
    /\ blocks[1].payload = "nop"
    /\ Returned(Quick, "Done")
    /\ loc[Quick].err = NoErr

\* ------------------------------------------------------ staged-tree atomicity

\* The block of handler t chains on the store and declares another root than
\* the one its payload gives on the committed tree.
DeclaresWrongRoot(t) ==
    /\ msg[t].block.index = Len(blocks)
    /\ msg[t].block.back = LastDigest
    /\ msg[t].block.root # Root(Execute(tree, msg[t].block.payload))

\* C14: staged-tree atomicity of Prepare. A BlockMessage whose Prepare fails
\* leaves the PBFT state as it was (NONE when Prepare found it NONE, with no
\* staged tree kept), leaves every key of the tree the cache returns, the
\* block store and the events as they were, and is answered with an error
\* and no digest; a block evaluated in NONE whose declared root differs from
\* the recomputed one fails with ROOT_MISMATCH.
C14_PrepareAtomic ==
    [][\A t \in Workers :
        /\ (PrepareStep(t) /\ loc'[t].err # NoErr) =>
            /\ pbft' = pbft
            /\ pbft.phase = "NONE" => (pbft'.phase = "NONE" /\ pbft'.staged = Nil)
            /\ \A k \in Keys : tree'[k] = tree[k]
            /\ UNCHANGED <<blocks, events>>
            /\ ret'[t] = Err("pbft prepare failed")
            /\ ret'[t].reply = Nil
        /\ (PrepareStep(t) /\ pbft.phase = "NONE" /\ DeclaresWrongRoot(t)) =>
                loc'[t].err = "ROOT_MISMATCH"]_vars

\* A block that increments x under an all-zero root was refused: the state
\* machine is in NONE and x is not set.
C14_Witness ==
    \E t \in Workers :
        /\ Returned(t, "Block")
        /\ loc[t].err = "ROOT_MISMATCH"
        /\ msg[t].block.payload = "incx"
        /\ msg[t].block.root = ZeroDigest
        /\ ret[t] = Err("pbft prepare failed")
        /\ pbft.phase = "NONE"
        /\ tree[keyX] = Nil

\* -------------------------------------------------------------- view change

\* The step by which handler t takes a ViewMessage, and the view it carries.
ViewStep(t) ==
    pc[t] = "idle" /\ pc'[t] = "done" /\ msg'[t].entry = "Process" /\ msg'[t].type = "View"
ViewOf(m) == [from |-> m.address, id |-> m.id, leader |-> m.leader]

\* The views accepted so far, v included, that match v on (ID, Leader).
MatchingViews(v) == {w \in pbft.views \cup {v} : w.id = v.id /\ w.leader = v.leader}

\* Whether v completes 2f+1 matching views, with n the size of the roster.
ReachesQuorum(v) ==
    LET n == Len(getCurrentRoster)
        f == (n - 1) \div 3
    IN  Cardinality(MatchingViews(v)) >= 2 * f + 1

\* The block of handler t is the next block of the chain with the root its
\* payload gives.
WellFormed(t) ==
    /\ msg[t].block.index = Len(blocks)
    /\ msg[t].block.back = LastDigest
    /\ msg[t].block.root = Root(Execute(tree, msg[t].block.payload))

\* C15: view change quorum. With n the roster size and f = floor((n-1)/3), a
\* view that leaves its (ID, Leader) below 2f+1 accepted matching views
\* changes neither the leader nor the phase nor the block in flight; the view
\* that completes 2f+1 discards the staged tree, makes its leader the leader
\* and leaves the state NONE; the leader changes by no other step; and a
\* Prepare of a well-formed block after the view change succeeds.
C15_ViewChangeQuorum ==
    [][/\ \A t \in Threads :
            ViewStep(t) =>
                LET v == ViewOf(msg'[t])
                IN  /\ loc'[t].view = v
                    /\ ~ReachesQuorum(v) =>
                            /\ pbft'.leader = pbft.leader
                            /\ pbft'.phase = pbft.phase
                            /\ pbft'.id = pbft.id
                            /\ pbft'.staged = pbft.staged
                    /\ ReachesQuorum(v) =>
                            /\ pbft'.leader = v.leader
                            /\ pbft'.phase = "NONE"
                            /\ pbft'.staged = Nil
       /\ pbft'.leader # pbft.leader =>
            \E t \in Threads : ViewStep(t) /\ ReachesQuorum(ViewOf(msg'[t]))
       /\ \A t \in Workers :
            (PrepareStep(t) /\ pbft.leader # 0 /\ pbft.phase = "NONE" /\ WellFormed(t)) =>
                /\ ret'[t] = Ok(Digest(msg[t].block))
                /\ pbft'.phase = "PREPARE"
                /\ pbft'.id = Digest(msg[t].block)]_vars

\* With a roster of 4, a block D was prepared, three views made 2 the leader,
\* and the Prepare of the contested block, another one than D, succeeded.
C15_Witness ==
    /\ Len(getCurrentRoster) = 4
    /\ Returned("t1", "Block")
    /\ ret["t1"].err = NoErr
    /\ Returned(Quick, "View")
    /\ msg[Quick].leader = 2
    /\ Returned("t2", "Block")
    /\ ret["t2"] = Ok(msg[Quick].id)
    /\ ret["t1"].reply # ret["t2"].reply
    /\ pbft.leader = 2
    /\ pbft.phase = "PREPARE"
    /\ pbft.id = msg[Quick].id

\* ------------------------------------------------------------------ finalize

\* C16: Finalize is atomic. A DoneMessage for id that succeeds finds the
\* state COMMIT(id) and, in that one step, makes the staged tree the tree of
\* the cache, appends exactly the block in flight to the store, emits exactly
\* one event with its index and returns the state to NONE; a DoneMessage
\* that fails leaves the state NONE with no staged tree, and the block store,
\* the tree cache and the events as they were.
C16_FinalizeAtomic ==
    [][\A t \in Threads :
        DoneStep(t) =>
            IF loc'[t].err = NoErr
            THEN /\ pbft.phase = "COMMIT" /\ pbft.id = msg'[t].id
                 /\ tree' = pbft.staged
                 /\ blocks' = Append(blocks, pbft.block)
                 /\ events' = Append(events, pbft.block.index)
                 /\ pbft'.phase = "NONE" /\ pbft'.staged = Nil /\ pbft'.block = Nil
                 /\ ret'[t] = Ok(Nil)
            ELSE /\ pbft'.phase = "NONE" /\ pbft'.staged = Nil /\ pbft'.block = Nil
                 /\ UNCHANGED <<tree, blocks, events>>
                 /\ ret'[t] = Err("pbftsm finalized failed")]_vars

\* The block that increments x was finalized: x is 1 in the tree of the
\* cache, the block is the last link, its index is the last event.
C16_Witness ==
    /\ Returned(Quick, "Done")
    /\ loc[Quick].err = NoErr
    /\ blocks # <<>>
    /\ blocks[Len(blocks)].payload = "incx"
    /\ tree[keyX] = <<1>>
    /\ events = <<Len(blocks) - 1>>
    /\ pbft.phase = "NONE"

\* ------------------------------------------------------------ roster rotation

\* The state machine holds a block whose payload rewrites the reserved key.
RotationStaged == pbft.phase # "NONE" /\ pbft.block.payload = "rot"

\* C17: roster rotation. getCurrentRoster() is the decoding of the value at
\* the reserved key of the tree the cache returns; while a block that
\* rewrites that key is only staged, through Prepare and Commit, it is the
\* old roster and not the staged one; the step that finalizes the block
\* makes it the roster the block staged.
C17_RosterRotation ==
    /\ [](getCurrentRoster = AuthorityOf(tree[keyRoster]))
    /\ [](RotationStaged => getCurrentRoster # AuthorityOf(pbft.staged[keyRoster]))
    /\ [][\A t \in Threads :
            /\ (PrepareStep(t) \/ CommitStep(t)) => getCurrentRoster' = getCurrentRoster
            /\ (DoneStep(t) /\ loc'[t].err = NoErr /\ pbft.block.payload = "rot") =>
                    /\ getCurrentRoster' = AuthorityOf(pbft.staged[keyRoster])
                    /\ getCurrentRoster' # getCurrentRoster]_vars

\* The genesis set the roster of 4; a block that rewrites the reserved key
\* was finalized and the current roster is the roster of 2.
C17_Witness ==
    /\ genesis # Nil
    /\ genesis.roster = RosterA
    /\ Returned(Quick, "Done")
    /\ loc[Quick].err = NoErr
    /\ blocks # <<>>
    /\ blocks[Len(blocks)].payload = "rot"
    /\ getCurrentRoster = RosterB

\* ------------------------------------------------------------- storeGenesis

\* Where a handler stands inside storeGenesis.
InStoreGenesis == {"sgStage", "sgCommit", "sgSet", "sgNotify", "sgClose"}

\* C18: once the started barrier is closed the genesis exists, and, as long
\* as no block was finalized on top of it, the tree of the cache holds the
\* serialized genesis roster at the reserved key and the event of index 0
\* was notified exactly once.
C18_StartedImpliesGenesis ==
    closes >= 1 =>
        /\ genesis # Nil
        /\ blocks = <<>> =>
            /\ tree[keyRoster] = Serialize(genesis.roster)
            /\ events = <<0>>

\* C19: a storeGenesis that returns an error has left the tree the cache
\* returns, the genesis slot, the events and the started barrier as they
\* were before the call.
C19_NoPartialState ==
    /\ [](\A t \in Workers :
            (Returned(t, "Genesis") /\ ret[t].err # NoErr) => ~loc[t].dirty)
    /\ [][\A t \in Workers :
            (pc[t] \in InStoreGenesis /\ pc'[t] = "done" /\ ret'[t].err # NoErr) =>
                UNCHANGED <<genesis, events, closes>>]_vars

\* C20: the tree cache is only advanced to committed trees. Inside
\* storeGenesis the tree of the cache changes only by the step in which
\* Commit() succeeded, to the staged tree, whose root is the expected root;
\* when Commit() fails the cache keeps its tree; a staged tree whose root is
\* not the expected one is dropped before Commit and never set.
C20_SetAfterCommit ==
    /\ [][\A t \in Workers :
            /\ (pc[t] = "sgCommit" /\ pc'[t] = "done") =>
                    (ret'[t] = Err("tree commit failed") /\ tree' = tree)
            /\ (pc[t] \in InStoreGenesis /\ pc'[t] # pc[t] /\ tree' # tree) =>
                    /\ pc[t] = "sgCommit" /\ pc'[t] = "sgSet"
                    /\ tree' = loc[t].stage
                    /\ Root(tree') = msg[t].root]_vars
    /\ [](\A t \in Workers :
            /\ pc[t] \in InStoreGenesis \ {"sgStage"} => Root(loc[t].stage) = msg[t].root
            /\ (Returned(t, "Genesis") /\ ret[t].err = "mismatch tree root") =>
                    (loc[t].stage = Nil /\ ~loc[t].dirty))

\* A storeGenesis committed its staged tree and set it: the cache returns
\* it, and its root is the root the genesis message expects; another
\* delivery was refused for its root.
C20_Witness ==
    \E t, u \in Workers :
        /\ pc[t] = "sgSet"
        /\ loc[t].dirty
        /\ tree = loc[t].stage
        /\ Root(tree) = msg[t].root
        /\ Returned(u, "Genesis")
        /\ ret[u].err = "mismatch tree root"

\* ------------------------------------------------- roster through the tree

\* Handler t has returned nil from a storeGenesis it ran itself.
StoredGenesis(t) ==
    /\ Returned(t, "Genesis")
    /\ ret[t] = Ok(Nil)
    /\ loc[t].stage # Nil

\* C21: roster round trip through the tree. After a storeGenesis(roster,
\* root) that returned nil, and as long as no block was finalized,
\* getCurrentRoster() is the roster that was given, participant by
\* participant in the same order, and the root of the stored genesis is the
\* root of the tree the tree cache returns.
C21_RosterRoundTrip ==
    \A t \in Workers :
        (StoredGenesis(t) /\ blocks = <<>>) =>
            /\ getCurrentRoster = msg[t].roster
            /\ genesis.root = Root(tree)

\* -------------------------------------------------------- roster iteration

\* Caller t holds, or has just dropped, an iterator.
Iterates(t) == pc[t] \in {"iter", "done"} /\ msg[t].type = "Iterate"

\* The slice the iterator of caller t walks.
Walked(t) ==
    IF msg[t].entry = "AddressIterator" THEN msg[t].roster.addrs ELSE msg[t].roster.pubkeys

\* The first position (from 0) of address a in roster r, -1 when absent.
FirstIndex(r, a) ==
    LET hits == {i \in 1..Len(r.addrs) : r.addrs[i] = a}
    IN  IF hits = {} THEN -1 ELSE (CHOOSE i \in hits : \A j \in hits : i <= j) - 1

\* What GetPublicKey is to return for address a of roster r.
Paired(r, a) ==
    LET f == FirstIndex(r, a)
    IN  IF f = -1 THEN [key |-> Nil, index |-> -1]
        ELSE [key |-> <<r.pubkeys[f + 1]>>, index |-> f]

\* C22: roster iteration is deterministic and paired. Over a roster of n
\* participants the k-th GetNext of an AddressIterator or PublicKeyIterator
\* returns the entry at index k-1 for k <= n and nil afterwards, the index
\* of the iterator never passes n, HasNext answers true exactly at the
\* positions 0..n-1, and GetPublicKey of an address returns the key and the
\* index of the first participant with that address, (nil, -1) for an
\* address of no participant; so the k-th address and the k-th key belong
\* to one participant.
C22_IterationPaired ==
    \A t \in Threads :
        /\ Iterates(t) =>
            LET n == Len(msg[t].roster.addrs)
                got == loc[t].got
            IN  /\ \A k \in 1..Len(got) :
                        got[k] = IF k <= n THEN <<Walked(t)[k]>> ELSE Nil
                /\ loc[t].it.index = IF Len(got) < n THEN Len(got) ELSE n
                /\ \A h \in loc[t].has : h.res <=> h.at < n
                /\ Cardinality({h \in loc[t].has : h.res}) <= n
                /\ \A k \in 1..n :
                        LET p == GetPublicKey(msg[t].roster, msg[t].roster.addrs[k])
                        IN  /\ p = Paired(msg[t].roster, msg[t].roster.addrs[k])
                            /\ p.index <= k - 1
                            /\ p.index = k - 1 => p.key = <<msg[t].roster.pubkeys[k]>>
        /\ (pc[t] = "done" /\ msg[t].type = "Lookup") =>
            /\ ret[t] = Paired(msg[t].roster, msg[t].target)
            /\ msg[t].target = Stranger => ret[t] = [key |-> Nil, index |-> -1]

\* An address iterator over two participants was asked HasNext before each
\* GetNext and once more at the end, then GetNext again: two addresses in
\* order, then nil, with HasNext true twice and false afterwards.
C22_Witness ==
    /\ pc[Quick] = "iter"
    /\ msg[Quick].entry = "AddressIterator"
    /\ msg[Quick].roster = [addrs |-> <<"a2", "a1">>, pubkeys |-> <<"k1", "k1">>]
    /\ loc[Quick].got = <<<<"a2">>, <<"a1">>, Nil>>
    /\ loc[Quick].has = {[at |-> 0, res |-> TRUE], [at |-> 1, res |-> TRUE],
                         [at |-> 2, res |-> FALSE], [at |-> 3, res |-> FALSE]}
    /\ loc[Quick].it.index = 2

\* ------------------------------------------------------------- roster.Apply

StoredSinceCheck(t) == {blocks[j].index : j \in (loc[t].len0 + 1)..Len(blocks)}

\* The indices waiting in the watch channel of handler t.
Queued(t) == {watch[t].ch[k] : k \in 1..Len(watch[t].ch)}

\* C24: no lost wake-up in the catch-up gate. The handler has subscribed
\* before it compares GetLatest() with Len(): from the comparison until the
\* context is cancelled every link stored since is in its channel or was
\* taken by its loop, once and in order, and the waiting loop does take it;
\* a handler that waits while the store holds such a link of index at least
\* GetLatest() leaves the wait, unless GetLatest(), which the loop reads
\* again at each link, has moved on; and a handler that has returned has
\* cancelled its subscription.
C24_NoLostWakeUp ==
    /\ [](\A t \in Waiters :
            /\ (pc[t] \in {"bWait", "bPrepare"} /\ ~watch[t].cancelled) =>
                /\ watch[t].sub
                /\ \A i \in StoredSinceCheck(t) : i <= loc[t].maxidx \/ i \in Queued(t)
            /\ pc[t] \in {"bCheck", "bWait", "bPrepare"} =>
                /\ \A k \in 1..Len(watch[t].ch) : watch[t].ch[k] > loc[t].maxidx
                /\ \A k, l \in 1..Len(watch[t].ch) : k < l => watch[t].ch[k] < watch[t].ch[l]
            /\ Returned(t, "Block") => watch[t].cancelled)
    /\ \A t \in Waiters : \A i \in 0..MaxBlocks :
            (pc[t] = "bWait" /\ i \in StoredSinceCheck(t))
                ~> (pc[t] # "bWait" \/ loc[t].maxidx >= i)
    /\ \A t \in Waiters : \A L \in 0..MaxLatest :
            (/\ pc[t] = "bWait"
             /\ latest = L
             /\ \E i \in StoredSinceCheck(t) : i >= L)
                ~> (pc[t] # "bWait" \/ latest # L)

\* The synchronizer stored the awaited link between the subscription and
\* the comparison's outcome being acted on: the handler is waiting, the link
\* of index GetLatest() was stored after the comparison and sits in the
\* channel, not yet taken.
C24_Witness ==
    \E t \in Waiters :
        /\ pc[t] = "bWait"
        /\ ~watch[t].cancelled
        /\ loc[t].maxidx = -1
        /\ Len(watch[t].ch) >= 2
        /\ loc[t].len0 \in Queued(t)
        /\ latest \in Queued(t)
        /\ latest \in StoredSinceCheck(t)

\* --------------------------------------------------------- request codec

\* Caller t has returned from Encode, or from Decode.
Encoded(t) == pc[t] = "done" /\ msg[t].entry = "Encode"
Decoded(t) == pc[t] = "done" /\ msg[t].entry = "Decode"

\* The names of the members written in an object.
MemberNames(o) == {o[2][i][1] : i \in 1..Len(o[2])}

\* The container member that carries each kind of request.
MemberFor(kind) ==
    IF kind = "PropagateGenesis" THEN "Propagate"
    ELSE IF kind = "BlockRequest" THEN "Request"
    ELSE "Response"

Serialized(t) == pc[t] = "done" /\ msg[t].entry = "Serialize"
Deserialized(t) == pc[t] = "done" /\ msg[t].entry = "Deserialize"

\* C26 as stated: every message whose VisitJSON succeeds is serialized to
\* bytes (which Deserialize then takes back to the message).
C26_VisitedRoundTrips ==
    \A s \in Threads :
        (Serialized(s) /\ VisitJSON(msg[s].message).err = NoErr) =>
            /\ ret[s].err = NoErr
            /\ SerializerDeserialize(ret[s].reply, "blockFactory").msg = msg[s].message

\* C26, amended: for every message whose VisitJSON succeeds and whose
\* visited value marshals, Deserialize of the bytes Serialize wrote, with
\* the matching factory, returns the message, whatever the order of the
\* members in the bytes; Serialize returns an error and no bytes when the
\* visit fails and also when the visited value does not marshal; and
\* Deserialize returns an error and no message when the factory's visit
\* fails.
C26_SerializerRoundTrip ==
    /\ \A s \in Threads :
        Serialized(s) =>
            LET m == msg[s].message
            IN  /\ ret[s].err = "couldn't visit message" <=> VisitJSON(m).err # NoErr
                /\ ret[s].err = "couldn't encode" <=> (m.type = "badMessage" /\ m.err = NoErr)
                /\ ret[s].err = NoErr <=> m.type = "block"
                /\ ret[s].err # NoErr => ret[s].reply = Nil
                /\ ret[s].err = NoErr =>
                        \A d \in Threads :
                            (/\ Deserialized(d)
                             /\ msg[d].data \in {ret[s].reply, Reversed(ret[s].reply)}
                             /\ msg[d].factory = "blockFactory") =>
                                (ret[d].err = NoErr /\ ret[d].reply = m)
    /\ \A d \in Threads :
        (Deserialized(d) /\ msg[d].factory = "badFactory") =>
            (ret[d].err = "couldn't visit factory" /\ ret[d].reply = Nil)

\* The block of the tests was serialized with Index before Value and read
\* back from the bytes with Value before Index.
C26_Witness ==
    /\ Serialized("t1")
    /\ msg["t1"].message = [type |-> "block", Index |-> 42, Value |-> "Hello World!"]
    /\ ret["t1"].reply = JObj(<<<<"Index", JNum(42)>>, <<"Value", JStr("Hello World!")>>>>)
    /\ Deserialized(Quick)
    /\ msg[Quick].factory = "blockFactory"
    /\ msg[Quick].data = JObj(<<<<"Value", JStr("Hello World!")>>, <<"Index", JNum(42)>>>>)
    /\ ret[Quick] = [reply |-> msg["t1"].message, err |-> NoErr]

====
